---- MODULE Spec2Model ----
(***************************************************************************)
(* CPU halt / pause coordination of the WALT scheduler extension.          *)
(*                                                                         *)
(*   kernel/sched/walt/walt_halt.c   drain-based coordinator               *)
(*   kernel/sched/walt/walt_pause.c  delegate-based coordinator            *)
(*                                                                         *)
(* The two files define the same entry points and are never built          *)
(* together; `variant` records which one the build contains.               *)
(***************************************************************************)
EXTENDS Integers, FiniteSets, Sequences, TLC

(***************************************************************************)
(* Bounds of the model.                                                    *)
(***************************************************************************)
\* number of possible CPUs (nr_cpu_ids)
NCpus == 2
\* number of concurrent client threads calling the coordinator
NThreads == 2
\* how far below zero the model lets a ref_count fall before it stops
\* issuing further unmatched resume calls
MaxUnder == 1
\* largest ref_count at which the model still issues a halt / pause call
MaxRef == 2
\* largest number of tasks, besides the stopper, on the drained run queue
MaxTasks == 3
\* how many times the model lets sched_clock() advance by ClockStep
MaxTicks == 3
\* nanoseconds by which sched_clock() advances in one step of the model
ClockStep == 200000
\* number of concurrent callers of kick_memperfd
NKickers == 2
\* jiffies up to which the model lets the jiffies counter run
MaxJiffies == 4

CPUs == 0 .. (NCpus - 1)
Threads == 1 .. NThreads
CpuSets == SUBSET CPUs

\* owner value of an unlocked mutex (DEFINE_MUTEX)
NoOwner == 0
\* owner value of the kworker that runs walt_pause_online_work
Worker == NThreads + 1

VARIABLES
    variant,          \* "halt" (walt_halt.c) or "pause" (walt_pause.c)
    cpu_online_mask,  \* the kernel's set of online CPUs
    now,              \* sched_clock()
    \* ---- walt_halt.c ----
    cpu_halt_mask,    \* __cpu_halt_mask
    halt_state,       \* per-CPU struct halt_cpu_state
    halt_lock,        \* owner of halt_lock, NoOwner when free
    \* ---- walt_pause.c ----
    pause_state,      \* per-CPU struct pause_cpu_state
    pause_lock,       \* owner of pause_lock, NoOwner when free
    cpu_paused,       \* CPUs the platform holds paused (pause_cpus/resume_cpus)
    work_pending,     \* walt_pause_online_work is queued
    wpc,              \* position of the kworker inside walt_pause_online_workfn
    re_pause_cpus,    \* local re_pause_cpus of the worker
    wret,             \* local ret of the worker
    \* ---- per calling thread ----
    pc,               \* position of the thread inside its call
    cpus,             \* the caller's cpumask argument ("cpus will be modified")
    requested_cpus,   \* local copy of the original request
    ret,              \* local ret
    cur,              \* loop variable cpu of for_each_cpu
    start_time,       \* local start_time of halt_cpus
    \* ---- history variables (not program state) ----
    held,             \* per thread: CPUs it halted successfully and has not resumed
    interfered,       \* CPUs resumed by a caller not holding them while another held them
    bal,              \* per CPU: successful halts minus resumes since its count started
    started,          \* CPUs whose count in bal is running (no resume below zero)
    ent,              \* per thread: coordinator state when it took the lock
    arg,              \* per thread: the CPU set its current call was given
    resumed,          \* per CPU: outcome of the last resume that took it from 1 to 0
    drain_calls,      \* per thread: CPUs its current call ran cpu_drain_rq on
    drain_log,        \* per thread: for each of those calls, whether the CPU was idle,
                      \* whether stop_one_cpu ran and what cpu_drain_rq returned
    \* ---- the run queue drain_rq_cpu_stop works on (walt_halt.c) ----
    tasks,            \* per task: kind, CPU of its run queue, on_rq, chosen destination
    rq,               \* the drained run queue: cpu, nr_running, stop
    mig,              \* locals of migrate_tasks and its position
    \* ---- fie_fixer.c: memperfd and its kickers ----
    jiffies,          \* the kernel's jiffies counter
    last_run_jiffies, \* atomic_long_t last_run_jiffies
    memperfd,         \* the memperfd thread: position, prev_jiffies, timeout, task
                      \* state, whether its swaitqueue entry is on memperfd_waitq
    kick,             \* per caller of kick_memperfd: position, locals now and prev,
                      \* what its swait_active() load returned
    cas_wins          \* history: per value, how many cmpxchg replaced it

vars == << variant, cpu_online_mask, now, cpu_halt_mask, halt_state, halt_lock,
           pause_state, pause_lock, cpu_paused, work_pending, wpc, re_pause_cpus, wret,
           pc, cpus, requested_cpus, ret, cur, start_time, held, interfered, bal, started, ent,
           arg, resumed, drain_calls, drain_log, tasks, rq, mig,
           jiffies, last_run_jiffies, memperfd, kick, cas_wins >>

envVars == << variant, cpu_online_mask, now >>
haltVars == << cpu_halt_mask, halt_state, halt_lock >>
localVars == << cpus, requested_cpus, ret, cur, start_time >>
pauseVars == << pause_state, pause_lock, cpu_paused, work_pending >>
workerVars == << wpc, re_pause_cpus, wret >>
histVars == << held, interfered, bal, started, ent, arg, resumed, drain_calls, drain_log >>
rqVars == << tasks, rq, mig >>
kickVars == << jiffies, last_run_jiffies, memperfd, kick, cas_wins >>

(***************************************************************************)
(* cpumask helpers                                                         *)
(***************************************************************************)
SetMin(S) == CHOOSE x \in S : \A y \in S : x <= y

\* cpumask_next(n, mask): the next set bit after n, nr_cpu_ids when none.
\* for_each_cpu(cpu, mask) is cpu = cpumask_next(-1, mask), then
\* cpu = cpumask_next(cpu, mask), while cpu < nr_cpu_ids.
cpumask_next(n, mask) ==
    IF \E c \in mask : c > n THEN SetMin({c \in mask : c > n}) ELSE NCpus

cpumask_first(mask) == cpumask_next(-1, mask)

(***************************************************************************)
(* walt_halt.c: per-CPU state                                              *)
(***************************************************************************)
\* static DEFINE_PER_CPU(struct halt_cpu_state, halt_state), zero-initialised
halt_cpu_state_init == [last_halt |-> 0, ref_count |-> 0]

ref_count(c) == halt_state[c].ref_count
last_halt(c) == halt_state[c].last_halt

\* update_ref_counts(cpus, halt): ref_count++ / ref_count-- for every CPU of
\* the mask; the decrement is unconditional (WARN_ON_ONCE only logs)
update_ref_counts(hs, mask, halt) ==
    [c \in CPUs |->
        IF c \in mask
        THEN [hs[c] EXCEPT !.ref_count = IF halt THEN @ + 1 ELSE @ - 1]
        ELSE hs[c]]

\* the mask left as it is
update_halt_cpus_none(hs, mask) == mask

\* update_halt_cpus(cpus): remove the CPUs whose ref_count is non-zero
update_halt_cpus(hs, mask) == {c \in mask : hs[c].ref_count = 0}

\* #define WALT_HALT_CHECK_THRESHOLD_NS 400000
WALT_HALT_CHECK_THRESHOLD_NS == 400000

\* the comparison made with >= instead of >
walt_halt_check_last_ge(cpu) ==
    ~(last_halt(cpu) # 0 /\ now - last_halt(cpu) >= WALT_HALT_CHECK_THRESHOLD_NS)

\* walt_halt_check_last(cpu): takes no lock; false when last_halt is set and
\* sched_clock() - last_halt exceeds the threshold, true otherwise (also
\* when last_halt is 0).  sched_clock() never runs behind a stored
\* last_halt, so the u64 difference does not wrap.
walt_halt_check_last(cpu) ==
    ~(last_halt(cpu) # 0 /\ now - last_halt(cpu) > WALT_HALT_CHECK_THRESHOLD_NS)

\* what stop_one_cpu(cpu, drain_rq_cpu_stop, NULL) returns: 0, the result
\* of drain_rq_cpu_stop, or -ENOENT (the stopper of the CPU is not enabled)
stop_one_cpu_results == {0, -2}

\* result of cpu_drain_rq(cpu): 0 when the CPU is idle, otherwise what
\* stop_one_cpu() returns
cpu_drain_rq_results == {0} \cup stop_one_cpu_results

(***************************************************************************)
(* walt_pause.c: per-CPU state                                             *)
(***************************************************************************)
\* static DEFINE_PER_CPU(struct pause_cpu_state, pause_state), zero-initialised
pause_cpu_state_init == [ref_count |-> 0]

pause_ref_count(c) == pause_state[c].ref_count

\* inc_ref_counts(cpus): the CPUs left in the mask, those whose ref_count
\* was zero
inc_ref_counts_mask(ps, mask) == {c \in mask : ps[c].ref_count = 0}

\* inc_ref_counts(cpus): ref_count++ for every CPU of the mask
inc_ref_counts(ps, mask) ==
    [c \in CPUs |-> IF c \in mask THEN [ps[c] EXCEPT !.ref_count = @ + 1] ELSE ps[c]]

\* dec_test_ref_counts(cpus): ref_count-- for every CPU of the mask; the
\* decrement is unconditional (WARN_ON_ONCE only logs)
dec_test_ref_counts(ps, mask) ==
    [c \in CPUs |-> IF c \in mask THEN [ps[c] EXCEPT !.ref_count = @ - 1] ELSE ps[c]]

\* dec_test_ref_counts(cpus): the CPUs left in the mask, those whose
\* ref_count reached zero
dec_test_ref_counts_mask(ps, mask) == {c \in mask : ps[c].ref_count = 1}

\* return values of the platform primitives pause_cpus() / resume_cpus():
\* 0 or a negative errno (-EBUSY)
pause_cpus_results == {0, -16}

\* pause_cpus(cpus): on success the online CPUs of the mask are paused, on
\* failure none is
pause_cpus(paused, mask, r) ==
    IF r < 0 THEN paused ELSE paused \cup (mask \cap cpu_online_mask)

\* resume_cpus(cpus): on success the CPUs of the mask are no longer paused,
\* on failure nothing changes
resume_cpus(paused, mask, r) ==
    IF r < 0 THEN paused ELSE paused \ mask

(***************************************************************************)
(* walt_halt.c: the run queue of the drained CPU                           *)
(***************************************************************************)
\* the tasks that can be on the drained run queue besides the stopper
TaskIds == 1 .. MaxTasks

\* is_per_cpu_kthread(p): a kthread bound to one CPU
is_per_cpu_kthread(p) == tasks[p].kind = "pinned"

\* the tasks pick_migrate_task(rq) can return: those queued on the run
\* queue (with rq->stop cleared the stopper is not among them)
queued_on(r) ==
    {p \in DOMAIN tasks : tasks[p].cpu = r.cpu /\ tasks[p].on_rq = "TASK_ON_RQ_QUEUED"}

\* select_fallback_rq(dead_rq->cpu, next): an active CPU the task may run
\* on, other than the CPU being drained
select_fallback_rq(cpu, p) == CPUs \ {cpu}

\* no drain is running: no tasks, only the stopper counted
rq_init == [cpu |-> 0, nr_running |-> 1, stop |-> "stop"]
mig_init == [pc |-> "idle", next |-> 0, percpu_kthreads |-> << >>,
             num_pinned_kthreads |-> 1, stop |-> "NULL", rq |-> 0, locks |-> {},
             iter_nr |-> 0]

\* the locks the stopper can hold: rq->__lock of a CPU's run queue and
\* p->pi_lock of a task
rq_lock(cpu) == [lock |-> "rq->__lock", of |-> cpu]
pi_lock(p) == [lock |-> "pi_lock", of |-> p]

\* task_rq(next) != rq || !task_on_rq_queued(next), rq being the run queue
\* migrate_tasks is working on
stale_task(p) == tasks[p].cpu # mig.rq \/ tasks[p].on_rq # "TASK_ON_RQ_QUEUED"

(***************************************************************************)
(* fie_fixer.c: kick_memperfd and memperfd_wait_for_kick                   *)
(***************************************************************************)
\* the callers of kick_memperfd (scheduler ticks on the CPUs, the timer of
\* memperfd_wait_timeout)
Kickers == 1 .. NKickers

\* CONFIG_HZ of the kernel configuration
HZ == 250

\* #define MEMPERFD_POLL_HZ (HZ / 100)
MEMPERFD_POLL_HZ == HZ \div 100

\* time_before(a, b): a is before b (no wrap within the model's jiffies)
time_before(a, b) == a < b

\* swait_active(&memperfd_waitq): the wait queue is not empty
swait_active == memperfd.queued

\* memperf_thread before its first memperfd_wait_for_kick, in memperf_work
memperfd_init == [pc |-> "work", prev_jiffies |-> 0, timeout |-> FALSE,
                  state |-> "TASK_RUNNING", queued |-> FALSE]

\* a caller outside kick_memperfd
kick_init == [pc |-> "idle", now |-> 0, prev |-> 0, active |-> "unread"]

\* static atomic_long_t last_run_jiffies = ATOMIC_INIT(0); nobody kicking
kick_idle ==
    /\ jiffies = 0
    /\ last_run_jiffies = 0
    /\ memperfd = memperfd_init
    /\ kick = [k \in Kickers |-> kick_init]
    /\ cas_wins = [v \in 0 .. MaxJiffies |-> 0]

(***************************************************************************)
(* Initial state                                                           *)
(***************************************************************************)
ent_none == [ref |-> [c \in CPUs |-> 0], mask |-> {}, last |-> [c \in CPUs |-> 0]]

snapshot == [ref |-> [c \in CPUs |-> halt_state[c].ref_count],
             mask |-> cpu_halt_mask,
             last |-> [c \in CPUs |-> halt_state[c].last_halt]]

pause_snapshot == [ref |-> [c \in CPUs |-> pause_state[c].ref_count],
                   mask |-> cpu_paused,
                   last |-> [c \in CPUs |-> 0]]

Init ==
    /\ variant \in {"halt", "pause"}
    /\ cpu_online_mask = CPUs
    /\ now = 1
    /\ cpu_halt_mask = {}
    /\ halt_state = [c \in CPUs |-> halt_cpu_state_init]
    /\ halt_lock = NoOwner
    /\ pause_state = [c \in CPUs |-> pause_cpu_state_init]
    /\ pause_lock = NoOwner
    /\ cpu_paused = {}
    /\ work_pending = FALSE
    /\ wpc = "idle"
    /\ re_pause_cpus = {}
    /\ wret = 0
    /\ pc = [t \in Threads |-> "idle"]
    /\ cpus = [t \in Threads |-> {}]
    /\ requested_cpus = [t \in Threads |-> {}]
    /\ ret = [t \in Threads |-> 0]
    /\ cur = [t \in Threads |-> NCpus]
    /\ start_time = [t \in Threads |-> 0]
    /\ held = [t \in Threads |-> {}]
    /\ interfered = {}
    /\ bal = [c \in CPUs |-> 0]
    /\ started = CPUs
    /\ ent = [t \in Threads |-> ent_none]
    /\ arg = [t \in Threads |-> {}]
    /\ resumed = [c \in CPUs |-> "none"]
    /\ drain_calls = [t \in Threads |-> {}]
    /\ drain_log = [t \in Threads |-> {}]
    /\ tasks = << >>
    /\ rq = rq_init
    /\ mig = mig_init
    /\ kick_idle

(***************************************************************************)
(* mutex_lock                                                              *)
(***************************************************************************)
\* mutex_lock(&halt_lock) / mutex_lock(&pause_lock) blocks until the mutex
\* is free
mutex_lock(owner) == owner = NoOwner

\* what a returning call leaves of its locals (the model forgets them)
return_locals(t) ==
    /\ pc' = [pc EXCEPT ![t] = "idle"]
    /\ cpus' = [cpus EXCEPT ![t] = {}]
    /\ requested_cpus' = [requested_cpus EXCEPT ![t] = {}]
    /\ ret' = [ret EXCEPT ![t] = 0]
    /\ cur' = [cur EXCEPT ![t] = NCpus]
    /\ start_time' = [start_time EXCEPT ![t] = 0]
    /\ ent' = [ent EXCEPT ![t] = ent_none]
    /\ arg' = [arg EXCEPT ![t] = {}]
    /\ drain_calls' = [drain_calls EXCEPT ![t] = {}]
    /\ drain_log' = [drain_log EXCEPT ![t] = {}]

\* bookkeeping of a returning call that halted the CPUs of H with success
\* or resumed the CPUs of R: bal counts the halts minus the resumes of a CPU
\* from the last state in which it had ref_count 0 and was not in the mask;
\* the count of a CPU stops at a resume that exceeds the halts
count_call(H, R) ==
    LET stop(c) == c \in R /\ bal[c] = 0
        b(c) == IF c \notin started \/ stop(c) THEN 0
                ELSE IF c \in H THEN bal[c] + 1
                ELSE IF c \in R THEN bal[c] - 1
                ELSE bal[c]
        run(c) == c \in started /\ ~stop(c)
        fresh(c) == /\ ref_count(c) = 0
                    /\ c \notin cpu_halt_mask
                    /\ (~run(c) \/ b(c) = 0)
    IN  /\ started' = {c \in CPUs : run(c) \/ fresh(c)}
        /\ bal' = [c \in CPUs |-> IF fresh(c) THEN 0 ELSE b(c)]

(***************************************************************************)
(* walt_halt.c: walt_halt_cpus                                             *)
(***************************************************************************)
\* walt_halt_cpus entered without taking halt_lock
walt_halt_cpus_lock_nolock(t, S) ==
    /\ variant = "halt"
    /\ pc[t] = "idle"
    /\ S \cap held[t] = {}
    /\ \A c \in S : ref_count(c) < MaxRef
    /\ cpus' = [cpus EXCEPT ![t] = S]
    /\ requested_cpus' = [requested_cpus EXCEPT ![t] = S]
    /\ ret' = [ret EXCEPT ![t] = 0]
    /\ pc' = [pc EXCEPT ![t] = "h_filter"]
    /\ ent' = [ent EXCEPT ![t] = snapshot]
    /\ arg' = [arg EXCEPT ![t] = S]
    /\ UNCHANGED << kickVars, rqVars, envVars, haltVars, pauseVars, workerVars,
                    cur, start_time, held, interfered, bal, started, resumed, drain_calls, drain_log >>

\* mutex_lock(&halt_lock); cpumask_copy(&requested_cpus, cpus);
walt_halt_cpus_lock(t, S) ==
    /\ variant = "halt"
    /\ pc[t] = "idle"
    /\ S \cap held[t] = {}
    /\ \A c \in S : ref_count(c) < MaxRef
    /\ mutex_lock(halt_lock)
    /\ halt_lock' = t
    /\ cpus' = [cpus EXCEPT ![t] = S]
    /\ requested_cpus' = [requested_cpus EXCEPT ![t] = S]
    /\ ret' = [ret EXCEPT ![t] = 0]
    /\ pc' = [pc EXCEPT ![t] = "h_filter"]
    /\ ent' = [ent EXCEPT ![t] = snapshot]
    /\ arg' = [arg EXCEPT ![t] = S]
    /\ UNCHANGED << kickVars, rqVars, envVars, cpu_halt_mask, halt_state, pauseVars, workerVars,
                    cur, start_time, held, interfered, bal, started, resumed, drain_calls, drain_log >>

\* an empty request refused with -EINVAL
walt_halt_cpus_filter_einval(t) ==
    /\ pc[t] = "h_filter"
    /\ LET rest == update_halt_cpus(halt_state, cpus[t]) IN
        /\ cpus' = [cpus EXCEPT ![t] = rest]
        /\ IF rest = {}
           THEN /\ halt_state' = update_ref_counts(halt_state, requested_cpus[t], TRUE)
                /\ pc' = [pc EXCEPT ![t] = "h_unlock"]
                /\ ret' = [ret EXCEPT ![t] = IF requested_cpus[t] = {} THEN -22 ELSE @]
                /\ UNCHANGED << cur, start_time >>
           ELSE /\ start_time' = [start_time EXCEPT ![t] = now]
                /\ cur' = [cur EXCEPT ![t] = cpumask_first(rest)]
                /\ pc' = [pc EXCEPT ![t] = "hc_set"]
                /\ UNCHANGED << halt_state, ret >>
    /\ UNCHANGED << kickVars, rqVars, envVars, cpu_halt_mask, halt_lock, pauseVars, workerVars,
                    requested_cpus, histVars >>

\* the early path counting only the CPUs left after the filter
walt_halt_cpus_filter_rest(t) ==
    /\ pc[t] = "h_filter"
    /\ LET rest == update_halt_cpus(halt_state, cpus[t]) IN
        /\ cpus' = [cpus EXCEPT ![t] = rest]
        /\ IF rest = {}
           THEN /\ halt_state' = update_ref_counts(halt_state, rest, TRUE)
                /\ pc' = [pc EXCEPT ![t] = "h_unlock"]
                /\ UNCHANGED << cur, start_time >>
           ELSE /\ start_time' = [start_time EXCEPT ![t] = now]
                /\ cur' = [cur EXCEPT ![t] = cpumask_first(rest)]
                /\ pc' = [pc EXCEPT ![t] = "hc_set"]
                /\ UNCHANGED halt_state
    /\ UNCHANGED << kickVars, rqVars, envVars, cpu_halt_mask, halt_lock, pauseVars, workerVars,
                    requested_cpus, ret, histVars >>

\* update_halt_cpus(cpus); if (cpumask_empty(cpus)) { update_ref_counts(
\* &requested_cpus, true); goto unlock; }  otherwise enter halt_cpus(cpus):
\* start_time = sched_clock() and the first CPU of the loop
walt_halt_cpus_filter(t) ==
    /\ pc[t] = "h_filter"
    /\ LET rest == update_halt_cpus(halt_state, cpus[t]) IN
        /\ cpus' = [cpus EXCEPT ![t] = rest]
        /\ IF rest = {}
           THEN /\ halt_state' = update_ref_counts(halt_state, requested_cpus[t], TRUE)
                /\ pc' = [pc EXCEPT ![t] = "h_unlock"]
                /\ UNCHANGED << cur, start_time >>
           ELSE /\ start_time' = [start_time EXCEPT ![t] = now]
                /\ cur' = [cur EXCEPT ![t] = cpumask_first(rest)]
                /\ pc' = [pc EXCEPT ![t] = "hc_set"]
                /\ UNCHANGED halt_state
    /\ UNCHANGED << kickVars, rqVars, envVars, cpu_halt_mask, halt_lock, pauseVars, workerVars,
                    requested_cpus, ret, histVars >>

\* halt_cpus: cpumask_set_cpu(cpu, cpu_halt_mask); wmb();
halt_cpus_set_mask(t) ==
    /\ pc[t] = "hc_set"
    /\ cpu_halt_mask' = cpu_halt_mask \cup {cur[t]}
    /\ pc' = [pc EXCEPT ![t] = "hc_last"]
    /\ UNCHANGED << kickVars, rqVars, envVars, halt_state, halt_lock, pauseVars, workerVars,
                    localVars, histVars >>

\* halt_cpus: halt_cpu_state->last_halt = start_time;
halt_cpus_set_last(t) ==
    /\ pc[t] = "hc_last"
    /\ halt_state' = [halt_state EXCEPT ![cur[t]].last_halt = start_time[t]]
    /\ pc' = [pc EXCEPT ![t] = "hc_drain"]
    /\ UNCHANGED << kickVars, rqVars, envVars, cpu_halt_mask, halt_lock, pauseVars, workerVars,
                    localVars, histVars >>

\* cpu_drain_rq going to stop_one_cpu whether the CPU is idle or not
cpu_drain_rq_always_stop(t, cpu, idle) ==
    /\ drain_calls' = [drain_calls EXCEPT ![t] = @ \cup {cpu}]
    /\ \E r \in stop_one_cpu_results :
          /\ ret' = [ret EXCEPT ![t] = r]
          /\ drain_log' = [drain_log EXCEPT ![t] =
                              @ \cup {[cpu |-> cpu, idle |-> idle, stopped |-> TRUE,
                                       ret |-> r]}]

\* ret = cpu_drain_rq(cpu): if (available_idle_cpu(cpu)) return 0;
\* return stop_one_cpu(cpu, drain_rq_cpu_stop, NULL);
\* idle is what available_idle_cpu(cpu) answers
cpu_drain_rq(t, cpu, idle) ==
    /\ drain_calls' = [drain_calls EXCEPT ![t] = @ \cup {cpu}]
    /\ IF idle
       THEN /\ ret' = [ret EXCEPT ![t] = 0]
            /\ drain_log' = [drain_log EXCEPT ![t] =
                                @ \cup {[cpu |-> cpu, idle |-> TRUE, stopped |-> FALSE,
                                         ret |-> 0]}]
       ELSE \E r \in stop_one_cpu_results :
               /\ ret' = [ret EXCEPT ![t] = r]
               /\ drain_log' = [drain_log EXCEPT ![t] =
                                   @ \cup {[cpu |-> cpu, idle |-> FALSE, stopped |-> TRUE,
                                            ret |-> r]}]

\* the drain run without the cpu_online test
halt_cpus_drain_any(t) ==
    /\ pc[t] = "hc_drain"
    /\ \E idle \in BOOLEAN : cpu_drain_rq(t, cur[t], idle)
    /\ pc' = [pc EXCEPT ![t] = "hc_check"]
    /\ UNCHANGED << kickVars, rqVars, envVars, haltVars, pauseVars, workerVars, cpus, requested_cpus,
                    cur, start_time, held, interfered, bal, started, ent, arg, resumed >>

\* halt_cpus: if (cpu_online(cpu)) ret = cpu_drain_rq(cpu);
halt_cpus_drain(t) ==
    /\ pc[t] = "hc_drain"
    /\ IF cur[t] \in cpu_online_mask
       THEN \E idle \in BOOLEAN : cpu_drain_rq(t, cur[t], idle)
       ELSE UNCHANGED << ret, drain_calls, drain_log >>
    /\ pc' = [pc EXCEPT ![t] = "hc_check"]
    /\ UNCHANGED << kickVars, rqVars, envVars, haltVars, pauseVars, workerVars, cpus, requested_cpus,
                    cur, start_time, held, interfered, bal, started, ent, arg, resumed >>

\* the loop carrying on with the next CPU after a failed drain
halt_cpus_check_nobreak(t) ==
    /\ pc[t] = "hc_check"
    /\ cpu_halt_mask' = IF ret[t] < 0 THEN cpu_halt_mask \ {cur[t]} ELSE cpu_halt_mask
    /\ IF ret[t] < 0 /\ cpumask_next(cur[t], cpus[t]) = NCpus
       THEN /\ pc' = [pc EXCEPT ![t] = "h_finish"]
            /\ UNCHANGED cur
       ELSE /\ cur' = [cur EXCEPT ![t] = cpumask_next(cur[t], cpus[t])]
            /\ pc' = [pc EXCEPT ![t] =
                        IF cur'[t] < NCpus THEN "hc_set" ELSE "h_finish"]
    /\ UNCHANGED << kickVars, rqVars, envVars, halt_state, halt_lock, pauseVars, workerVars, cpus,
                    requested_cpus, ret, start_time, histVars >>

\* halt_cpus: if (ret < 0) { cpumask_clear_cpu(cpu, cpu_halt_mask); break; }
\* and the step of for_each_cpu
halt_cpus_check(t) ==
    /\ pc[t] = "hc_check"
    /\ IF ret[t] < 0
       THEN /\ cpu_halt_mask' = cpu_halt_mask \ {cur[t]}
            /\ pc' = [pc EXCEPT ![t] = "h_finish"]
            /\ UNCHANGED cur
       ELSE /\ cur' = [cur EXCEPT ![t] = cpumask_next(cur[t], cpus[t])]
            /\ pc' = [pc EXCEPT ![t] =
                        IF cur'[t] < NCpus THEN "hc_set" ELSE "h_finish"]
            /\ UNCHANGED cpu_halt_mask
    /\ UNCHANGED << kickVars, rqVars, envVars, halt_state, halt_lock, pauseVars, workerVars, cpus,
                    requested_cpus, ret, start_time, histVars >>

\* the references taken whatever halt_cpus returned
walt_halt_cpus_finish_always(t) ==
    /\ pc[t] = "h_finish"
    /\ halt_state' = update_ref_counts(halt_state, requested_cpus[t], TRUE)
    /\ pc' = [pc EXCEPT ![t] = "h_unlock"]
    /\ UNCHANGED << kickVars, rqVars, envVars, cpu_halt_mask, halt_lock, pauseVars, workerVars,
                    localVars, histVars >>

\* ret = halt_cpus(cpus); if (ret < 0) pr_debug(...);
\* else update_ref_counts(&requested_cpus, true);
walt_halt_cpus_finish(t) ==
    /\ pc[t] = "h_finish"
    /\ halt_state' = IF ret[t] < 0 THEN halt_state
                     ELSE update_ref_counts(halt_state, requested_cpus[t], TRUE)
    /\ pc' = [pc EXCEPT ![t] = "h_unlock"]
    /\ UNCHANGED << kickVars, rqVars, envVars, cpu_halt_mask, halt_lock, pauseVars, workerVars,
                    localVars, histVars >>

\* unlock: mutex_unlock(&halt_lock); return ret;
walt_halt_cpus_unlock(t) ==
    /\ pc[t] = "h_unlock"
    /\ halt_lock' = NoOwner
    /\ held' = [held EXCEPT ![t] = IF ret[t] < 0 THEN @ ELSE @ \cup arg[t]]
    /\ count_call(IF ret[t] < 0 THEN {} ELSE arg[t], {})
    /\ return_locals(t)
    /\ UNCHANGED << kickVars, rqVars, envVars, cpu_halt_mask, halt_state, pauseVars, workerVars,
                    interfered, resumed >>

(***************************************************************************)
(* walt_halt.c: walt_start_cpus                                            *)
(***************************************************************************)
\* walt_start_cpus entered without taking halt_lock
walt_start_cpus_lock_nolock(t, S) ==
    /\ variant = "halt"
    /\ pc[t] = "idle"
    /\ \A c \in S : ref_count(c) > -MaxUnder
    /\ cpus' = [cpus EXCEPT ![t] = S]
    /\ requested_cpus' = [requested_cpus EXCEPT ![t] = S]
    /\ ret' = [ret EXCEPT ![t] = 0]
    /\ pc' = [pc EXCEPT ![t] = "s_dec"]
    /\ ent' = [ent EXCEPT ![t] = snapshot]
    /\ arg' = [arg EXCEPT ![t] = S]
    /\ interfered' = interfered \cup
                        {c \in S \ held[t] : \E u \in Threads : c \in held[u]}
    /\ UNCHANGED << kickVars, rqVars, envVars, haltVars, pauseVars, workerVars,
                    cur, start_time, held, bal, started, resumed, drain_calls, drain_log >>

\* mutex_lock(&halt_lock); cpumask_copy(&requested_cpus, cpus);
walt_start_cpus_lock(t, S) ==
    /\ variant = "halt"
    /\ pc[t] = "idle"
    /\ \A c \in S : ref_count(c) > -MaxUnder
    /\ mutex_lock(halt_lock)
    /\ halt_lock' = t
    /\ cpus' = [cpus EXCEPT ![t] = S]
    /\ requested_cpus' = [requested_cpus EXCEPT ![t] = S]
    /\ ret' = [ret EXCEPT ![t] = 0]
    /\ pc' = [pc EXCEPT ![t] = "s_dec"]
    /\ ent' = [ent EXCEPT ![t] = snapshot]
    /\ arg' = [arg EXCEPT ![t] = S]
    /\ interfered' = interfered \cup
                        {c \in S \ held[t] : \E u \in Threads : c \in held[u]}
    /\ UNCHANGED << kickVars, rqVars, envVars, cpu_halt_mask, halt_state, pauseVars, workerVars,
                    cur, start_time, held, bal, started, resumed, drain_calls, drain_log >>

\* start_cpus applied to the whole request
walt_start_cpus_dec_nofilter(t) ==
    /\ pc[t] = "s_dec"
    /\ halt_state' = update_ref_counts(halt_state, requested_cpus[t], FALSE)
    /\ cur' = [cur EXCEPT ![t] = cpumask_first(cpus[t])]
    /\ pc' = [pc EXCEPT ![t] = IF cpus[t] = {} THEN "s_unlock" ELSE "sc_last"]
    /\ UNCHANGED << kickVars, rqVars, envVars, cpu_halt_mask, halt_lock, pauseVars, workerVars,
                    cpus, requested_cpus, ret, start_time, histVars >>

\* update_ref_counts(&requested_cpus, false); update_halt_cpus(cpus);
\* then enter start_cpus(cpus) with the first CPU of its loop
walt_start_cpus_dec(t) ==
    /\ pc[t] = "s_dec"
    /\ halt_state' = update_ref_counts(halt_state, requested_cpus[t], FALSE)
    /\ LET rest == update_halt_cpus(halt_state', cpus[t]) IN
        /\ cpus' = [cpus EXCEPT ![t] = rest]
        /\ cur' = [cur EXCEPT ![t] = cpumask_first(rest)]
        /\ pc' = [pc EXCEPT ![t] = IF rest = {} THEN "s_unlock" ELSE "sc_last"]
    /\ UNCHANGED << kickVars, rqVars, envVars, cpu_halt_mask, halt_lock, pauseVars, workerVars,
                    requested_cpus, ret, start_time, histVars >>

\* start_cpus: halt_cpu_state->last_halt = 0; wmb();
start_cpus_clear_last(t) ==
    /\ pc[t] = "sc_last"
    /\ halt_state' = [halt_state EXCEPT ![cur[t]].last_halt = 0]
    /\ pc' = [pc EXCEPT ![t] = "sc_mask"]
    /\ UNCHANGED << kickVars, rqVars, envVars, cpu_halt_mask, halt_lock, pauseVars, workerVars,
                    localVars, histVars >>

\* start_cpus draining the CPU it makes schedulable again
start_cpus_clear_mask_drain(t) ==
    /\ pc[t] = "sc_mask"
    /\ cpu_halt_mask' = cpu_halt_mask \ {cur[t]}
    /\ cur' = [cur EXCEPT ![t] = cpumask_next(cur[t], cpus[t])]
    /\ pc' = [pc EXCEPT ![t] = IF cur'[t] < NCpus THEN "sc_last" ELSE "s_unlock"]
    /\ drain_calls' = [drain_calls EXCEPT ![t] = @ \cup {cur[t]}]
    /\ UNCHANGED << kickVars, rqVars, envVars, halt_state, halt_lock, pauseVars, workerVars, cpus,
                    requested_cpus, ret, start_time, held, interfered, bal, started, ent,
                    arg, resumed, drain_log >>

\* start_cpus: cpumask_clear_cpu(cpu, cpu_halt_mask); and the loop step;
\* start_cpus returns 0, so the ret < 0 branch of walt_start_cpus is dead
start_cpus_clear_mask(t) ==
    /\ pc[t] = "sc_mask"
    /\ cpu_halt_mask' = cpu_halt_mask \ {cur[t]}
    /\ cur' = [cur EXCEPT ![t] = cpumask_next(cur[t], cpus[t])]
    /\ pc' = [pc EXCEPT ![t] = IF cur'[t] < NCpus THEN "sc_last" ELSE "s_unlock"]
    /\ UNCHANGED << kickVars, rqVars, envVars, halt_state, halt_lock, pauseVars, workerVars, cpus,
                    requested_cpus, ret, start_time, histVars >>

\* walt_start_cpus returning with halt_lock still held
walt_start_cpus_unlock_keep(t) ==
    /\ pc[t] = "s_unlock"
    /\ held' = [held EXCEPT ![t] = @ \ arg[t]]
    /\ count_call({}, arg[t])
    /\ return_locals(t)
    /\ UNCHANGED << kickVars, rqVars, envVars, haltVars, pauseVars, workerVars,
                    interfered, resumed >>

\* mutex_unlock(&halt_lock); return ret;
walt_start_cpus_unlock(t) ==
    /\ pc[t] = "s_unlock"
    /\ halt_lock' = NoOwner
    /\ held' = [held EXCEPT ![t] = @ \ arg[t]]
    /\ count_call({}, arg[t])
    /\ return_locals(t)
    /\ UNCHANGED << kickVars, rqVars, envVars, cpu_halt_mask, halt_state, pauseVars, workerVars,
                    interfered, resumed >>

(***************************************************************************)
(* walt_pause.c: walt_pause_cpus                                           *)
(***************************************************************************)
\* mutex_lock(&pause_lock);
walt_pause_cpus_lock(t, S) ==
    /\ variant = "pause"
    /\ pc[t] = "idle"
    /\ \A c \in S : pause_ref_count(c) < MaxRef
    /\ mutex_lock(pause_lock)
    /\ pause_lock' = t
    /\ cpus' = [cpus EXCEPT ![t] = S]
    /\ ret' = [ret EXCEPT ![t] = 0]
    /\ pc' = [pc EXCEPT ![t] = "p_inc"]
    /\ ent' = [ent EXCEPT ![t] = pause_snapshot]
    /\ arg' = [arg EXCEPT ![t] = S]
    /\ resumed' = [c \in CPUs |-> IF c \in S THEN "none" ELSE resumed[c]]
    /\ UNCHANGED << kickVars, rqVars, envVars, haltVars, pause_state, cpu_paused, work_pending,
                    workerVars, requested_cpus, cur, start_time, held, interfered, bal, started,
                    drain_calls, drain_log >>

\* inc_ref_counts(cpus); cpumask_and(cpus, cpus, cpu_online_mask);
\* if (cpumask_empty(cpus)) goto unlock; cpumask_copy(&requested_cpus, cpus);
walt_pause_cpus_inc(t) ==
    /\ pc[t] = "p_inc"
    /\ pause_state' = inc_ref_counts(pause_state, cpus[t])
    /\ LET rest == inc_ref_counts_mask(pause_state, cpus[t]) \cap cpu_online_mask IN
        /\ cpus' = [cpus EXCEPT ![t] = rest]
        /\ IF rest = {}
           THEN /\ pc' = [pc EXCEPT ![t] = "p_unlock"]
                /\ UNCHANGED requested_cpus
           ELSE /\ pc' = [pc EXCEPT ![t] = "p_pause"]
                /\ requested_cpus' = [requested_cpus EXCEPT ![t] = rest]
    /\ UNCHANGED << kickVars, rqVars, envVars, haltVars, pause_lock, cpu_paused, work_pending,
                    workerVars, ret, cur, start_time, histVars >>

\* ret = pause_cpus(cpus); if (ret < 0) dec_test_ref_counts(&requested_cpus);
walt_pause_cpus_pause(t) ==
    /\ pc[t] = "p_pause"
    /\ \E r \in pause_cpus_results :
        /\ ret' = [ret EXCEPT ![t] = r]
        /\ cpu_paused' = pause_cpus(cpu_paused, cpus[t], r)
        /\ pause_state' = IF r < 0
                          THEN dec_test_ref_counts(pause_state, requested_cpus[t])
                          ELSE pause_state
        /\ requested_cpus' = [requested_cpus EXCEPT ![t] =
                                IF r < 0
                                THEN dec_test_ref_counts_mask(pause_state, @)
                                ELSE @]
    /\ pc' = [pc EXCEPT ![t] = "p_unlock"]
    /\ UNCHANGED << kickVars, rqVars, envVars, haltVars, pause_lock, work_pending, workerVars,
                    cpus, cur, start_time, histVars >>

\* unlock: mutex_unlock(&pause_lock); return ret;
walt_pause_cpus_unlock(t) ==
    /\ pc[t] = "p_unlock"
    /\ pause_lock' = NoOwner
    /\ return_locals(t)
    /\ UNCHANGED << kickVars, rqVars, envVars, haltVars, pause_state, cpu_paused, work_pending,
                    workerVars, held, interfered, bal, started, resumed >>

(***************************************************************************)
(* walt_pause.c: walt_resume_cpus                                          *)
(***************************************************************************)
\* mutex_lock(&pause_lock);
walt_resume_cpus_lock(t, S) ==
    /\ variant = "pause"
    /\ pc[t] = "idle"
    /\ \A c \in S : pause_ref_count(c) > -MaxUnder
    /\ mutex_lock(pause_lock)
    /\ pause_lock' = t
    /\ cpus' = [cpus EXCEPT ![t] = S]
    /\ ret' = [ret EXCEPT ![t] = 0]
    /\ pc' = [pc EXCEPT ![t] = "r_dec"]
    /\ ent' = [ent EXCEPT ![t] = pause_snapshot]
    /\ arg' = [arg EXCEPT ![t] = S]
    /\ resumed' = [c \in CPUs |-> IF c \in S THEN "none" ELSE resumed[c]]
    /\ UNCHANGED << kickVars, rqVars, envVars, haltVars, pause_state, cpu_paused, work_pending,
                    workerVars, requested_cpus, cur, start_time, held, interfered, bal, started,
                    drain_calls, drain_log >>

\* dec_test_ref_counts(cpus); cpumask_and(cpus, cpus, cpu_online_mask);
\* if (cpumask_empty(cpus)) goto unlock; cpumask_copy(&requested_cpus, cpus);
walt_resume_cpus_dec(t) ==
    /\ pc[t] = "r_dec"
    /\ pause_state' = dec_test_ref_counts(pause_state, cpus[t])
    /\ LET rest == dec_test_ref_counts_mask(pause_state, cpus[t]) \cap cpu_online_mask IN
        /\ cpus' = [cpus EXCEPT ![t] = rest]
        /\ IF rest = {}
           THEN /\ pc' = [pc EXCEPT ![t] = "r_unlock"]
                /\ UNCHANGED requested_cpus
           ELSE /\ pc' = [pc EXCEPT ![t] = "r_resume"]
                /\ requested_cpus' = [requested_cpus EXCEPT ![t] = rest]
    /\ UNCHANGED << kickVars, rqVars, envVars, haltVars, pause_lock, cpu_paused, work_pending,
                    workerVars, ret, cur, start_time, histVars >>

\* ret = resume_cpus(cpus); if (ret < 0) inc_ref_counts(&requested_cpus);
walt_resume_cpus_resume(t) ==
    /\ pc[t] = "r_resume"
    /\ \E r \in pause_cpus_results :
        /\ ret' = [ret EXCEPT ![t] = r]
        /\ cpu_paused' = resume_cpus(cpu_paused, cpus[t], r)
        /\ pause_state' = IF r < 0
                          THEN inc_ref_counts(pause_state, requested_cpus[t])
                          ELSE pause_state
        /\ requested_cpus' = [requested_cpus EXCEPT ![t] =
                                IF r < 0 THEN inc_ref_counts_mask(pause_state, @) ELSE @]
    /\ pc' = [pc EXCEPT ![t] = "r_unlock"]
    /\ UNCHANGED << kickVars, rqVars, envVars, haltVars, pause_lock, work_pending, workerVars,
                    cpus, cur, start_time, histVars >>

\* unlock: mutex_unlock(&pause_lock); return ret;
walt_resume_cpus_unlock(t) ==
    /\ pc[t] = "r_unlock"
    /\ pause_lock' = NoOwner
    /\ resumed' = [c \in CPUs |->
                     IF c \in arg[t] /\ ent[t].ref[c] = 1 /\ c \in ent[t].mask
                     THEN (IF ret[t] < 0 THEN "err" ELSE "ok")
                     ELSE resumed[c]]
    /\ return_locals(t)
    /\ UNCHANGED << kickVars, rqVars, envVars, haltVars, pause_state, cpu_paused, work_pending,
                    workerVars, held, interfered, bal, started >>

(***************************************************************************)
(* walt_pause.c: walt_pause_online_workfn, run by a kworker                *)
(***************************************************************************)
\* the workqueue takes the queued item and calls walt_pause_online_workfn
walt_pause_online_work_run ==
    /\ variant = "pause"
    /\ work_pending
    /\ wpc = "idle"
    /\ work_pending' = FALSE
    /\ wpc' = "w_lock"
    /\ UNCHANGED << kickVars, rqVars, envVars, haltVars, pause_state, pause_lock, cpu_paused,
                    re_pause_cpus, wret, pc, localVars, histVars >>

\* the worker going on to read the ref_counts without taking pause_lock
walt_pause_online_workfn_lock_none ==
    /\ wpc = "w_lock"
    /\ wpc' = "w_scan"
    /\ re_pause_cpus' = {}
    /\ wret' = 0
    /\ UNCHANGED << kickVars, rqVars, envVars, haltVars, pauseVars, pc, localVars, histVars >>

\* mutex_lock(&pause_lock); cpumask_clear(&re_pause_cpus);
walt_pause_online_workfn_lock ==
    /\ wpc = "w_lock"
    /\ mutex_lock(pause_lock)
    /\ pause_lock' = Worker
    /\ wpc' = "w_scan"
    /\ re_pause_cpus' = {}
    /\ wret' = 0
    /\ UNCHANGED << kickVars, rqVars, envVars, haltVars, pause_state, cpu_paused, work_pending,
                    pc, localVars, histVars >>

\* the scan going over every possible CPU instead of the online ones
walt_pause_online_workfn_scan_possible ==
    /\ wpc = "w_scan"
    /\ re_pause_cpus' = {c \in CPUs : pause_ref_count(c) # 0}
    /\ wpc' = IF re_pause_cpus' = {} THEN "w_unlock" ELSE "w_pause"
    /\ UNCHANGED << kickVars, rqVars, envVars, haltVars, pauseVars, wret, pc, localVars, histVars >>

\* for_each_online_cpu(cpu) if (pause_cpu_state->ref_count)
\*     cpumask_set_cpu(cpu, &re_pause_cpus);
\* if (cpumask_empty(&re_pause_cpus)) goto unlock;
walt_pause_online_workfn_scan ==
    /\ wpc = "w_scan"
    /\ re_pause_cpus' = {c \in cpu_online_mask : pause_ref_count(c) # 0}
    /\ wpc' = IF re_pause_cpus' = {} THEN "w_unlock" ELSE "w_pause"
    /\ UNCHANGED << kickVars, rqVars, envVars, haltVars, pauseVars, wret, pc, localVars, histVars >>

\* the worker dropping the references of the CPUs it failed to pause
walt_pause_online_workfn_pause_undo ==
    /\ wpc = "w_pause"
    /\ \E r \in pause_cpus_results :
        /\ wret' = r
        /\ cpu_paused' = pause_cpus(cpu_paused, re_pause_cpus, r)
        /\ pause_state' = IF r < 0 THEN dec_test_ref_counts(pause_state, re_pause_cpus)
                          ELSE pause_state
    /\ wpc' = "w_unlock"
    /\ UNCHANGED << kickVars, rqVars, envVars, haltVars, pause_lock, work_pending,
                    re_pause_cpus, pc, localVars, histVars >>

\* ret = pause_cpus(&re_pause_cpus);
walt_pause_online_workfn_pause ==
    /\ wpc = "w_pause"
    /\ \E r \in pause_cpus_results :
        /\ wret' = r
        /\ cpu_paused' = pause_cpus(cpu_paused, re_pause_cpus, r)
    /\ wpc' = "w_unlock"
    /\ UNCHANGED << kickVars, rqVars, envVars, haltVars, pause_state, pause_lock, work_pending,
                    re_pause_cpus, pc, localVars, histVars >>

\* unlock: mutex_unlock(&pause_lock); if (ret < 0) pr_err(...);
walt_pause_online_workfn_unlock ==
    /\ wpc = "w_unlock"
    /\ pause_lock' = NoOwner
    /\ wpc' = "idle"
    /\ re_pause_cpus' = {}
    /\ wret' = 0
    /\ UNCHANGED << kickVars, rqVars, envVars, haltVars, pause_state, cpu_paused, work_pending,
                    pc, localVars, histVars >>

(***************************************************************************)
(* CPU hotplug (the environment) and the online callback                   *)
(***************************************************************************)
\* walt_pause_hp_online(online_cpu): if (pause_cpu_state->ref_count)
\*     schedule_work(&walt_pause_online_work);
walt_pause_hp_online(online_cpu) ==
    work_pending' = (work_pending \/ pause_ref_count(online_cpu) # 0)

\* a CPU goes offline; an offline CPU is no longer held paused by the platform
cpu_down(c) ==
    /\ c \in cpu_online_mask
    /\ cpu_online_mask' = cpu_online_mask \ {c}
    /\ cpu_paused' = cpu_paused \ {c}
    /\ UNCHANGED << kickVars, rqVars, variant, now, haltVars, pause_state, pause_lock, work_pending,
                    workerVars, pc, localVars, histVars >>

\* a CPU comes online (active, not paused); the pause variant registered
\* walt_pause_hp_online for CPUHP_AP_ONLINE_DYN, walt_halt_init registers
\* nothing
cpu_up(c) ==
    /\ c \notin cpu_online_mask
    /\ cpu_online_mask' = cpu_online_mask \cup {c}
    /\ IF variant = "pause"
       THEN walt_pause_hp_online(c)
       ELSE UNCHANGED work_pending
    /\ UNCHANGED << kickVars, rqVars, variant, now, haltVars, pause_state, pause_lock, cpu_paused,
                    workerVars, pc, localVars, histVars >>

(***************************************************************************)
(* sched_clock()                                                           *)
(***************************************************************************)
\* time passes
tick ==
    /\ now < 1 + MaxTicks * ClockStep
    /\ now' = now + ClockStep
    /\ UNCHANGED << kickVars, rqVars, variant, cpu_online_mask, haltVars, pauseVars, workerVars,
                    pc, localVars, histVars >>

(***************************************************************************)
(* walt_halt.c: drain_rq_cpu_stop / migrate_tasks, run by the stopper of   *)
(* the drained CPU                                                         *)
(***************************************************************************)
\* a run queue with the running stopper and up to MaxTasks queued tasks,
\* each migratable or a per-CPU kthread, on the CPU to be drained
InitDrain ==
    /\ variant = "halt"
    /\ cpu_online_mask = CPUs
    /\ now = 1
    /\ cpu_halt_mask = {}
    /\ halt_state = [c \in CPUs |-> halt_cpu_state_init]
    /\ halt_lock = NoOwner
    /\ pause_state = [c \in CPUs |-> pause_cpu_state_init]
    /\ pause_lock = NoOwner
    /\ cpu_paused = {}
    /\ work_pending = FALSE
    /\ wpc = "idle"
    /\ re_pause_cpus = {}
    /\ wret = 0
    /\ pc = [t \in Threads |-> "idle"]
    /\ cpus = [t \in Threads |-> {}]
    /\ requested_cpus = [t \in Threads |-> {}]
    /\ ret = [t \in Threads |-> 0]
    /\ cur = [t \in Threads |-> NCpus]
    /\ start_time = [t \in Threads |-> 0]
    /\ held = [t \in Threads |-> {}]
    /\ interfered = {}
    /\ bal = [c \in CPUs |-> 0]
    /\ started = CPUs
    /\ ent = [t \in Threads |-> ent_none]
    /\ arg = [t \in Threads |-> {}]
    /\ resumed = [c \in CPUs |-> "none"]
    /\ drain_calls = [t \in Threads |-> {}]
    /\ drain_log = [t \in Threads |-> {}]
    /\ \E cpu \in CPUs, n \in 0 .. MaxTasks :
        \E kinds \in [1 .. n -> {"migratable", "pinned"}] :
            /\ tasks = [p \in 1 .. n |->
                         [kind |-> kinds[p], cpu |-> cpu,
                          on_rq |-> "TASK_ON_RQ_QUEUED", dest |-> cpu]]
            /\ rq = [cpu |-> cpu, nr_running |-> n + 1, stop |-> "stop"]
    /\ mig = mig_init
    /\ kick_idle

\* drain_rq_cpu_stop that does not keep the stop task for the restore
drain_rq_cpu_stop_nosave ==
    /\ mig.pc = "idle"
    /\ mig' = [mig EXCEPT !.pc = "m_loop", !.rq = rq.cpu,
                          !.percpu_kthreads = << >>, !.num_pinned_kthreads = 1,
                          !.locks = {rq_lock(rq.cpu)}]
    /\ rq' = [rq EXCEPT !.stop = "NULL"]
    /\ UNCHANGED << kickVars, tasks, envVars, haltVars, pauseVars, workerVars, pc, localVars,
                    histVars >>

\* drain_rq_cpu_stop: rq_lock_irqsave(rq, &rf); migrate_tasks: rq = dead_rq;
\* stop = rq->stop; LIST_HEAD(percpu_kthreads); num_pinned_kthreads = 1;
\* rq->stop = NULL;
drain_rq_cpu_stop ==
    /\ mig.pc = "idle"
    /\ mig' = [mig EXCEPT !.pc = "m_loop", !.stop = rq.stop, !.rq = rq.cpu,
                          !.percpu_kthreads = << >>, !.num_pinned_kthreads = 1,
                          !.locks = {rq_lock(rq.cpu)}]
    /\ rq' = [rq EXCEPT !.stop = "NULL"]
    /\ UNCHANGED << kickVars, tasks, envVars, haltVars, pauseVars, workerVars, pc, localVars,
                    histVars >>

\* for (;;) { if (rq->nr_running == 1) break; next = pick_migrate_task(rq);
\* (iter_nr remembers rq->nr_running as tested at the loop head)
migrate_tasks_pick ==
    /\ mig.pc = "m_loop"
    /\ IF rq.nr_running = 1
       THEN mig' = [mig EXCEPT !.pc = "m_attach", !.iter_nr = rq.nr_running]
       ELSE \E p \in queued_on(rq) :
                mig' = [mig EXCEPT !.pc = "m_next", !.next = p,
                                   !.iter_nr = rq.nr_running]
    /\ UNCHANGED << kickVars, tasks, rq, envVars, haltVars, pauseVars, workerVars, pc, localVars,
                    histVars >>

\* the kthreads put back only when the count exceeds 2
migrate_tasks_attach_above_two ==
    /\ mig.pc = "m_attach"
    /\ LET list == mig.percpu_kthreads
           attach == mig.num_pinned_kthreads > 2
       IN  /\ tasks' = [p \in DOMAIN tasks |->
                          IF attach /\ \E i \in DOMAIN list : list[i] = p
                          THEN [tasks[p] EXCEPT !.on_rq = "TASK_ON_RQ_QUEUED"]
                          ELSE tasks[p]]
           /\ rq' = [rq EXCEPT !.nr_running = IF attach THEN @ + Len(list) ELSE @,
                               !.stop = mig.stop]
           /\ mig' = [mig EXCEPT !.pc = "m_done",
                                 !.percpu_kthreads = IF attach THEN << >> ELSE @]
    /\ UNCHANGED << kickVars, envVars, haltVars, pauseVars, workerVars, pc, localVars, histVars >>

\* a detach that takes the kthread off the list of runnable tasks without
\* deactivate_task, leaving rq->nr_running as it was
migrate_tasks_detach_nodeactivate ==
    /\ mig.pc = "m_next"
    /\ is_per_cpu_kthread(mig.next)
    /\ tasks' = [tasks EXCEPT ![mig.next].on_rq = "TASK_ON_RQ_MIGRATING"]
    /\ rq' = rq
    /\ mig' = [mig EXCEPT !.pc = "m_loop",
                          !.percpu_kthreads = << mig.next >> \o @,
                          !.num_pinned_kthreads = @ + 1]
    /\ UNCHANGED << kickVars, envVars, haltVars, pauseVars, workerVars, pc, localVars, histVars >>

\* if (is_per_cpu_kthread(next)) { detach_one_task_core(next, rq,
\* &percpu_kthreads); num_pinned_kthreads += 1; continue; }
\* detach_one_task_core: p->on_rq = TASK_ON_RQ_MIGRATING;
\* deactivate_task(rq, p, 0); list_add(&p->se.group_node, tasks);
migrate_tasks_detach ==
    /\ mig.pc = "m_next"
    /\ is_per_cpu_kthread(mig.next)
    /\ tasks' = [tasks EXCEPT ![mig.next].on_rq = "TASK_ON_RQ_MIGRATING"]
    /\ rq' = [rq EXCEPT !.nr_running = @ - 1]
    /\ mig' = [mig EXCEPT !.pc = "m_loop",
                          !.percpu_kthreads = << mig.next >> \o @,
                          !.num_pinned_kthreads = @ + 1]
    /\ UNCHANGED << kickVars, envVars, haltVars, pauseVars, workerVars, pc, localVars, histVars >>

\* rq_unlock(rq, rf);
migrate_tasks_unlock ==
    /\ mig.pc = "m_next"
    /\ ~is_per_cpu_kthread(mig.next)
    /\ mig' = [mig EXCEPT !.pc = "m_pi", !.locks = @ \ {rq_lock(mig.rq)}]
    /\ UNCHANGED << kickVars, tasks, rq, envVars, haltVars, pauseVars, workerVars, pc, localVars,
                    histVars >>

\* raw_spin_lock(&next->pi_lock);
migrate_tasks_lock_pi ==
    /\ mig.pc = "m_pi"
    /\ mig' = [mig EXCEPT !.pc = "m_relock", !.locks = @ \cup {pi_lock(mig.next)}]
    /\ UNCHANGED << kickVars, tasks, rq, envVars, haltVars, pauseVars, workerVars, pc, localVars,
                    histVars >>

\* rq_relock(rq, rf);
migrate_tasks_relock ==
    /\ mig.pc = "m_relock"
    /\ mig' = [mig EXCEPT !.pc = "m_check", !.locks = @ \cup {rq_lock(mig.rq)}]
    /\ UNCHANGED << kickVars, tasks, rq, envVars, haltVars, pauseVars, workerVars, pc, localVars,
                    histVars >>

\* the stale-task branch leaving without raw_spin_unlock(&next->pi_lock)
migrate_tasks_check_keep_pi ==
    /\ mig.pc = "m_check"
    /\ mig' = [mig EXCEPT !.pc = IF stale_task(mig.next) THEN "m_loop" ELSE "m_migrate"]
    /\ UNCHANGED << kickVars, tasks, rq, envVars, haltVars, pauseVars, workerVars, pc, localVars,
                    histVars >>

\* the check going on to migrate the picked task whatever its state
migrate_tasks_check_force ==
    /\ mig.pc = "m_check"
    /\ mig' = [mig EXCEPT !.pc = "m_migrate"]
    /\ UNCHANGED << kickVars, tasks, rq, envVars, haltVars, pauseVars, workerVars, pc, localVars,
                    histVars >>

\* if (task_rq(next) != rq || !task_on_rq_queued(next)) {
\*         raw_spin_unlock(&next->pi_lock); continue; }
migrate_tasks_check ==
    /\ mig.pc = "m_check"
    /\ IF stale_task(mig.next)
       THEN mig' = [mig EXCEPT !.pc = "m_loop", !.locks = @ \ {pi_lock(mig.next)}]
       ELSE mig' = [mig EXCEPT !.pc = "m_migrate"]
    /\ UNCHANGED << kickVars, tasks, rq, envVars, haltVars, pauseVars, workerVars, pc, localVars,
                    histVars >>

\* dest_cpu = select_fallback_rq(dead_rq->cpu, next);
\* rq = __migrate_task(rq, rf, next, dest_cpu); (the task is dequeued, the
\* lock of the old run queue is dropped and that of dest_cpu's run queue
\* taken, the task is queued there and that run queue is returned)
migrate_tasks_migrate ==
    /\ mig.pc = "m_migrate"
    /\ \E dest_cpu \in select_fallback_rq(rq.cpu, mig.next) :
        /\ tasks' = [tasks EXCEPT ![mig.next].cpu = dest_cpu, ![mig.next].dest = dest_cpu]
        /\ mig' = [mig EXCEPT !.pc = "m_switch", !.rq = dest_cpu,
                              !.locks = (@ \ {rq_lock(mig.rq)}) \cup {rq_lock(dest_cpu)}]
    /\ rq' = [rq EXCEPT !.nr_running = @ - 1]
    /\ UNCHANGED << kickVars, envVars, haltVars, pauseVars, workerVars, pc, localVars, histVars >>

\* if (rq != dead_rq) { rq_unlock(rq, rf); rq = dead_rq; *rf = orf;
\*         rq_relock(rq, rf); }
migrate_tasks_switch ==
    /\ mig.pc = "m_switch"
    /\ IF mig.rq # rq.cpu
       THEN mig' = [mig EXCEPT !.pc = "m_unlock_pi", !.rq = rq.cpu,
                               !.locks = (@ \ {rq_lock(mig.rq)}) \cup {rq_lock(rq.cpu)}]
       ELSE mig' = [mig EXCEPT !.pc = "m_unlock_pi"]
    /\ UNCHANGED << kickVars, tasks, rq, envVars, haltVars, pauseVars, workerVars, pc, localVars,
                    histVars >>

\* raw_spin_unlock(&next->pi_lock); } (end of the loop body)
migrate_tasks_unlock_pi ==
    /\ mig.pc = "m_unlock_pi"
    /\ mig' = [mig EXCEPT !.pc = "m_loop", !.locks = @ \ {pi_lock(mig.next)}]
    /\ UNCHANGED << kickVars, tasks, rq, envVars, haltVars, pauseVars, workerVars, pc, localVars,
                    histVars >>

\* if (num_pinned_kthreads > 1) attach_tasks_core(&percpu_kthreads, rq);
\* rq->stop = stop;  attach_tasks_core: for every task of the list
\* list_del_init; BUG_ON(task_rq(p) != rq); activate_task(rq, p, 0);
\* p->on_rq = TASK_ON_RQ_QUEUED;
migrate_tasks_attach ==
    /\ mig.pc = "m_attach"
    /\ LET list == mig.percpu_kthreads
           attach == mig.num_pinned_kthreads > 1
       IN  IF attach /\ \E i \in DOMAIN list : tasks[list[i]].cpu # mig.rq
           THEN /\ mig' = [mig EXCEPT !.pc = "m_bug"]
                /\ UNCHANGED << tasks, rq >>
           ELSE /\ tasks' = [p \in DOMAIN tasks |->
                               IF attach /\ \E i \in DOMAIN list : list[i] = p
                               THEN [tasks[p] EXCEPT !.on_rq = "TASK_ON_RQ_QUEUED"]
                               ELSE tasks[p]]
                /\ rq' = [rq EXCEPT !.nr_running = IF attach THEN @ + Len(list) ELSE @,
                                    !.stop = mig.stop]
                /\ mig' = [mig EXCEPT !.pc = "m_done",
                                      !.percpu_kthreads = IF attach THEN << >> ELSE @]
    /\ UNCHANGED << kickVars, envVars, haltVars, pauseVars, workerVars, pc, localVars, histVars >>

\* drain_rq_cpu_stop after migrate_tasks has returned:
\* rq_unlock_irqrestore(rq, &rf); return 0;
drain_rq_cpu_stop_unlock ==
    /\ mig.pc = "m_done"
    /\ mig' = [mig EXCEPT !.pc = "m_ret", !.locks = @ \ {rq_lock(rq.cpu)}]
    /\ UNCHANGED << kickVars, tasks, rq, envVars, haltVars, pauseVars, workerVars, pc, localVars,
                    histVars >>

NextDrain ==
    \/ drain_rq_cpu_stop
    \/ migrate_tasks_pick
    \/ migrate_tasks_detach
    \/ migrate_tasks_unlock
    \/ migrate_tasks_lock_pi
    \/ migrate_tasks_relock
    \/ migrate_tasks_check
    \/ migrate_tasks_migrate
    \/ migrate_tasks_switch
    \/ migrate_tasks_unlock_pi
    \/ migrate_tasks_attach
    \/ drain_rq_cpu_stop_unlock

SpecDrain == InitDrain /\ [][NextDrain]_vars

\* the stopper runs drain_rq_cpu_stop to its end: it is not preempted and
\* never blocks but on the locks it takes, which are free or its own
SpecDrainFair == SpecDrain /\ WF_vars(NextDrain)

(***************************************************************************)
(* The drain without the stop-the-world guarantee: cpu_drain_rq uses       *)
(* stop_one_cpu, which stops the drained CPU only, so that another CPU can *)
(* take the run-queue lock while migrate_tasks has dropped it              *)
(***************************************************************************)
\* another CPU pulls a queued migratable task to its own run queue
remote_pull(p, dest_cpu) ==
    /\ mig.pc \in {"m_pi", "m_relock"}
    /\ p \in queued_on(rq)
    /\ ~is_per_cpu_kthread(p)
    /\ dest_cpu # rq.cpu
    /\ tasks' = [tasks EXCEPT ![p].cpu = dest_cpu, ![p].dest = dest_cpu]
    /\ rq' = [rq EXCEPT !.nr_running = @ - 1]
    /\ UNCHANGED << kickVars, mig, envVars, haltVars, pauseVars, workerVars, pc, localVars,
                    histVars >>

\* a queued task is taken off the run queue by another CPU (p->on_rq = 0)
remote_dequeue(p) ==
    /\ mig.pc \in {"m_pi", "m_relock"}
    /\ p \in queued_on(rq)
    /\ tasks' = [tasks EXCEPT ![p].on_rq = "0"]
    /\ rq' = [rq EXCEPT !.nr_running = @ - 1]
    /\ UNCHANGED << kickVars, mig, envVars, haltVars, pauseVars, workerVars, pc, localVars,
                    histVars >>

NextDrainStale ==
    \/ NextDrain
    \/ \E p \in TaskIds, dest_cpu \in CPUs : remote_pull(p, dest_cpu)
    \/ \E p \in TaskIds : remote_dequeue(p)

SpecDrainStale == InitDrain /\ [][NextDrainStale]_vars

(***************************************************************************)
(* fie_fixer.c: kick_memperfd, called concurrently from any CPU            *)
(***************************************************************************)
\* what a kick step leaves alone
kick_frame ==
    UNCHANGED << rqVars, envVars, haltVars, pauseVars, workerVars, pc, localVars,
                 histVars >>

\* a timer tick advances jiffies
jiffies_tick ==
    /\ jiffies < MaxJiffies
    /\ jiffies' = jiffies + 1
    /\ UNCHANGED << last_run_jiffies, memperfd, kick, cas_wins >>
    /\ kick_frame

\* unsigned long prev, now = jiffies;
kick_memperfd_now(k) ==
    /\ kick[k].pc = "idle"
    /\ kick' = [kick EXCEPT ![k] = [pc |-> "k_prev", now |-> jiffies, prev |-> 0,
                                    active |-> "unread"]]
    /\ UNCHANGED << jiffies, last_run_jiffies, memperfd, cas_wins >>
    /\ kick_frame

\* prev = atomic_long_read(&last_run_jiffies);
\* if (time_before(now, prev + MEMPERFD_POLL_HZ)) return;
kick_memperfd_prev(k) ==
    /\ kick[k].pc = "k_prev"
    /\ kick' = [kick EXCEPT ![k] =
                  IF time_before(kick[k].now, last_run_jiffies + MEMPERFD_POLL_HZ)
                  THEN kick_init
                  ELSE [@ EXCEPT !.pc = "k_cmpxchg", !.prev = last_run_jiffies]]
    /\ UNCHANGED << jiffies, last_run_jiffies, memperfd, cas_wins >>
    /\ kick_frame

\* atomic_long_cmpxchg_relaxed(&last_run_jiffies, prev, now), its load: the
\* value read differs from prev and the cmpxchg fails, or it is prev and the
\* store is still to come
kick_memperfd_cmpxchg_load(k) ==
    /\ kick[k].pc = "k_cmpxchg"
    /\ kick' = [kick EXCEPT ![k] =
                  IF last_run_jiffies # kick[k].prev
                  THEN kick_init
                  ELSE [@ EXCEPT !.pc = "k_store"]]
    /\ UNCHANGED << jiffies, last_run_jiffies, memperfd, cas_wins >>
    /\ kick_frame

\* the load of swait_active(&memperfd_waitq) satisfied before the store of
\* the relaxed cmpxchg is visible: smp_acquire__after_ctrl_dep() orders it
\* after the load of the cmpxchg only
kick_memperfd_swait_active_early(k) ==
    /\ kick[k].pc = "k_store"
    /\ kick[k].active = "unread"
    /\ kick' = [kick EXCEPT ![k].active = IF swait_active THEN "active" ELSE "empty"]
    /\ UNCHANGED << jiffies, last_run_jiffies, memperfd, cas_wins >>
    /\ kick_frame

\* the store of the cmpxchg made without comparing
kick_memperfd_cmpxchg_store_blind(k) ==
    /\ kick[k].pc = "k_store"
    /\ last_run_jiffies' = kick[k].now
    /\ cas_wins' = [cas_wins EXCEPT ![kick[k].prev] = @ + 1]
    /\ kick' = [kick EXCEPT ![k].pc = "k_wake"]
    /\ UNCHANGED << jiffies, memperfd >>
    /\ kick_frame

\* atomic_long_cmpxchg_relaxed, its store: it replaces prev by now if
\* last_run_jiffies is still prev; if (... != prev) return;
kick_memperfd_cmpxchg_store(k) ==
    /\ kick[k].pc = "k_store"
    /\ IF last_run_jiffies = kick[k].prev
       THEN /\ last_run_jiffies' = kick[k].now
            /\ cas_wins' = [cas_wins EXCEPT ![kick[k].prev] = @ + 1]
            /\ kick' = [kick EXCEPT ![k].pc = "k_wake"]
       ELSE /\ kick' = [kick EXCEPT ![k] = kick_init]
            /\ UNCHANGED << last_run_jiffies, cas_wins >>
    /\ UNCHANGED << jiffies, memperfd >>
    /\ kick_frame

\* smp_acquire__after_ctrl_dep(); if (swait_active(&memperfd_waitq))
\* swake_up_one(&memperfd_waitq);  (swake_up_one wakes the first waiter and
\* takes it off the queue; on an empty queue it does nothing)
kick_memperfd_wake(k) ==
    /\ kick[k].pc = "k_wake"
    /\ LET active == IF kick[k].active = "unread" THEN swait_active
                     ELSE kick[k].active = "active"
       IN  memperfd' = IF active /\ memperfd.queued
                       THEN [memperfd EXCEPT !.state = "TASK_RUNNING", !.queued = FALSE,
                                             !.pc = IF @ = "sleep" THEN "prepare" ELSE @]
                       ELSE memperfd
    /\ kick' = [kick EXCEPT ![k] = kick_init]
    /\ UNCHANGED << jiffies, last_run_jiffies, cas_wins >>
    /\ kick_frame

(***************************************************************************)
(* fie_fixer.c: memperf_thread / memperfd_wait_for_kick                    *)
(***************************************************************************)
\* memperfd_wait_for_kick(memperf_work()): unsigned long prev_jiffies =
\* jiffies; atomic_long_set(&last_run_jiffies, prev_jiffies);
memperfd_wait_for_kick(timeout) ==
    /\ memperfd.pc = "work"
    /\ last_run_jiffies' = jiffies
    /\ memperfd' = [memperfd EXCEPT !.pc = "prepare", !.prev_jiffies = jiffies,
                                    !.timeout = timeout]
    /\ UNCHANGED << jiffies, kick, cas_wins >>
    /\ kick_frame

\* prepare_to_swait_exclusive(&memperfd_waitq, &wait, TASK_IDLE);
memperfd_prepare_to_swait ==
    /\ memperfd.pc = "prepare"
    /\ memperfd' = [memperfd EXCEPT !.pc = "check", !.queued = TRUE,
                                    !.state = "TASK_IDLE"]
    /\ UNCHANGED << jiffies, last_run_jiffies, kick, cas_wins >>
    /\ kick_frame

\* if (atomic_long_read(&last_run_jiffies) != prev_jiffies) break;
memperfd_check ==
    /\ memperfd.pc = "check"
    /\ memperfd' = [memperfd EXCEPT !.pc = IF last_run_jiffies # memperfd.prev_jiffies
                                           THEN "finish" ELSE "schedule"]
    /\ UNCHANGED << jiffies, last_run_jiffies, kick, cas_wins >>
    /\ kick_frame

\* if (timeout) memperfd_wait_timeout(); else freezable_schedule();
\* schedule() returns at once to a task that was made runnable meanwhile and
\* puts a TASK_IDLE task to sleep until it is woken; the timer of
\* memperfd_wait_timeout calls kick_memperfd like any other caller
memperfd_schedule ==
    /\ memperfd.pc = "schedule"
    /\ memperfd' = [memperfd EXCEPT !.pc = IF memperfd.state = "TASK_RUNNING"
                                           THEN "prepare" ELSE "sleep"]
    /\ UNCHANGED << jiffies, last_run_jiffies, kick, cas_wins >>
    /\ kick_frame

\* finish_swait(&memperfd_waitq, &wait); and back to memperf_work()
memperfd_finish_swait ==
    /\ memperfd.pc = "finish"
    /\ memperfd' = [memperfd EXCEPT !.pc = "work", !.state = "TASK_RUNNING",
                                    !.queued = FALSE]
    /\ UNCHANGED << jiffies, last_run_jiffies, kick, cas_wins >>
    /\ kick_frame

NextKick ==
    \/ jiffies_tick
    \/ \E k \in Kickers : kick_memperfd_now(k)
    \/ \E k \in Kickers : kick_memperfd_prev(k)
    \/ \E k \in Kickers : kick_memperfd_cmpxchg_load(k)
    \/ \E k \in Kickers : kick_memperfd_swait_active_early(k)
    \/ \E k \in Kickers : kick_memperfd_cmpxchg_store(k)
    \/ \E k \in Kickers : kick_memperfd_wake(k)
    \/ \E timeout \in BOOLEAN : memperfd_wait_for_kick(timeout)
    \/ memperfd_prepare_to_swait
    \/ memperfd_check
    \/ memperfd_schedule
    \/ memperfd_finish_swait

(***************************************************************************)
(* The drain-based build with sched_clock() advancing                      *)
(***************************************************************************)
InitClock ==
    /\ variant = "halt"
    /\ cpu_online_mask = CPUs
    /\ now = 1
    /\ cpu_halt_mask = {}
    /\ halt_state = [c \in CPUs |-> halt_cpu_state_init]
    /\ halt_lock = NoOwner
    /\ pause_state = [c \in CPUs |-> pause_cpu_state_init]
    /\ pause_lock = NoOwner
    /\ cpu_paused = {}
    /\ work_pending = FALSE
    /\ wpc = "idle"
    /\ re_pause_cpus = {}
    /\ wret = 0
    /\ pc = [t \in Threads |-> "idle"]
    /\ cpus = [t \in Threads |-> {}]
    /\ requested_cpus = [t \in Threads |-> {}]
    /\ ret = [t \in Threads |-> 0]
    /\ cur = [t \in Threads |-> NCpus]
    /\ start_time = [t \in Threads |-> 0]
    /\ held = [t \in Threads |-> {}]
    /\ interfered = {}
    /\ bal = [c \in CPUs |-> 0]
    /\ started = CPUs
    /\ ent = [t \in Threads |-> ent_none]
    /\ arg = [t \in Threads |-> {}]
    /\ resumed = [c \in CPUs |-> "none"]
    /\ drain_calls = [t \in Threads |-> {}]
    /\ drain_log = [t \in Threads |-> {}]
    /\ tasks = << >>
    /\ rq = rq_init
    /\ mig = mig_init
    /\ kick_idle

NextClock ==
    \/ tick
    \/ \E t \in Threads, S \in CpuSets : walt_halt_cpus_lock(t, S)
    \/ \E t \in Threads : walt_halt_cpus_filter(t)
    \/ \E t \in Threads : halt_cpus_set_mask(t)
    \/ \E t \in Threads : halt_cpus_set_last(t)
    \/ \E t \in Threads : halt_cpus_drain(t)
    \/ \E t \in Threads : halt_cpus_check(t)
    \/ \E t \in Threads : walt_halt_cpus_finish(t)
    \/ \E t \in Threads : walt_halt_cpus_unlock(t)
    \/ \E t \in Threads, S \in CpuSets : walt_start_cpus_lock(t, S)
    \/ \E t \in Threads : walt_start_cpus_dec(t)
    \/ \E t \in Threads : start_cpus_clear_last(t)
    \/ \E t \in Threads : start_cpus_clear_mask(t)
    \/ \E t \in Threads : walt_start_cpus_unlock(t)

SpecClock == InitClock /\ [][NextClock]_vars

\* memperfd and the callers of kick_memperfd, the coordinator at rest
SpecKick == InitClock /\ [][NextKick]_vars

(***************************************************************************)
(* Specification                                                           *)
(***************************************************************************)
Next ==
    \/ \E t \in Threads, S \in CpuSets : walt_halt_cpus_lock(t, S)
    \/ \E t \in Threads : walt_halt_cpus_filter(t)
    \/ \E t \in Threads : halt_cpus_set_mask(t)
    \/ \E t \in Threads : halt_cpus_set_last(t)
    \/ \E t \in Threads : halt_cpus_drain(t)
    \/ \E t \in Threads : halt_cpus_check(t)
    \/ \E t \in Threads : walt_halt_cpus_finish(t)
    \/ \E t \in Threads : walt_halt_cpus_unlock(t)
    \/ \E t \in Threads, S \in CpuSets : walt_start_cpus_lock(t, S)
    \/ \E t \in Threads : walt_start_cpus_dec(t)
    \/ \E t \in Threads : start_cpus_clear_last(t)
    \/ \E t \in Threads : start_cpus_clear_mask(t)
    \/ \E t \in Threads : walt_start_cpus_unlock(t)
    \/ \E t \in Threads, S \in CpuSets : walt_pause_cpus_lock(t, S)
    \/ \E t \in Threads : walt_pause_cpus_inc(t)
    \/ \E t \in Threads : walt_pause_cpus_pause(t)
    \/ \E t \in Threads : walt_pause_cpus_unlock(t)
    \/ \E t \in Threads, S \in CpuSets : walt_resume_cpus_lock(t, S)
    \/ \E t \in Threads : walt_resume_cpus_dec(t)
    \/ \E t \in Threads : walt_resume_cpus_resume(t)
    \/ \E t \in Threads : walt_resume_cpus_unlock(t)
    \/ walt_pause_online_work_run
    \/ walt_pause_online_workfn_lock
    \/ walt_pause_online_workfn_scan
    \/ walt_pause_online_workfn_pause
    \/ walt_pause_online_workfn_unlock
    \/ \E c \in CPUs : cpu_down(c)
    \/ \E c \in CPUs : cpu_up(c)

Spec == Init /\ [][Next]_vars

\* the steps of thread t after it has taken the lock of its call: none of
\* them waits for anything
coordinator_step(t) ==
    \/ walt_halt_cpus_filter(t)
    \/ halt_cpus_set_mask(t)
    \/ halt_cpus_set_last(t)
    \/ halt_cpus_drain(t)
    \/ halt_cpus_check(t)
    \/ walt_halt_cpus_finish(t)
    \/ walt_halt_cpus_unlock(t)
    \/ walt_start_cpus_dec(t)
    \/ start_cpus_clear_last(t)
    \/ start_cpus_clear_mask(t)
    \/ walt_start_cpus_unlock(t)
    \/ walt_pause_cpus_inc(t)
    \/ walt_pause_cpus_pause(t)
    \/ walt_pause_cpus_unlock(t)
    \/ walt_resume_cpus_dec(t)
    \/ walt_resume_cpus_resume(t)
    \/ walt_resume_cpus_unlock(t)

\* the steps of the kworker once it owns pause_lock
worker_step ==
    \/ walt_pause_online_workfn_scan
    \/ walt_pause_online_workfn_pause
    \/ walt_pause_online_workfn_unlock

\* every thread inside a call and the kworker keep running, the drain and
\* the platform primitives return, the workqueue runs queued work, and the
\* mutex is handed to a waiter that finds it free again and again
SpecFair ==
    /\ Spec
    /\ \A t \in Threads : WF_vars(coordinator_step(t))
    /\ WF_vars(worker_step)
    /\ WF_vars(walt_pause_online_work_run)
    /\ SF_vars(walt_pause_online_workfn_lock)

(***************************************************************************)
(* Properties of the drain-based coordinator (walt_halt.c)                 *)
(***************************************************************************)
InCall(t) == pc[t] # "idle"

\* thread t is inside a resume call that covers c
Resuming(t, c) == pc[t] \in {"s_dec", "sc_last", "sc_mask", "s_unlock"} /\ c \in arg[t]

\* callers that halted c successfully and have not called resume on it
holders(c) == {t \in Threads : c \in held[t] /\ ~Resuming(t, c)}

\* C1: whenever halt_lock is free, a CPU is in the global halt mask if and
\* only if its ref_count is greater than zero.
C1_MaskIffRefCount ==
    (variant = "halt" /\ halt_lock = NoOwner) =>
        \A c \in CPUs : (c \in cpu_halt_mask) <=> (ref_count(c) > 0)

\* C2: with S1 and S2 successfully halted by two independent callers, when
\* resume(S1) returns every CPU of the overlap still has ref_count > 0 and
\* its mask bit set, as long as the other caller has not resumed it, and the
\* CPUs nobody else holds have left the mask.  (A CPU that a caller not
\* holding it resumed while another held it is left out: there the callers
\* themselves break the protocol.)
C2_OverlapStaysHalted ==
    \A t \in Threads : pc[t] = "s_unlock" =>
        \A c \in (arg[t] \cap held[t]) \ interfered :
            IF holders(c) # {}
            THEN c \in cpu_halt_mask /\ ref_count(c) > 0
            ELSE c \notin cpu_halt_mask

\* C3: whenever walt_halt_cpus(S) returns success, every CPU of S is in the
\* global halt mask and has ref_count >= 1, whatever calls preceded it.
C3_HaltSuccessAllHalted ==
    \A t \in Threads : (pc[t] = "h_unlock" /\ ret[t] >= 0) =>
        \A c \in arg[t] : c \in cpu_halt_mask /\ ref_count(c) >= 1

\* C4: starting from ref_count[c] = 0 with c not halted, after n successful
\* halts and m < n resumes covering c (no prefix with more resumes than
\* halts) ref_count[c] = n - m and c is in the mask; the resume that brings
\* the count to 0, and no other, clears the mask bit of c.
C4_RefCountIsBalance ==
    variant = "halt" =>
        /\ halt_lock = NoOwner =>
              \A c \in started :
                  /\ ref_count(c) = bal[c]
                  /\ bal[c] > 0 => c \in cpu_halt_mask
        /\ \A t \in Threads : pc[t] = "s_unlock" =>
              \A c \in arg[t] \cap started : bal[c] > 0 =>
                  /\ c \in ent[t].mask
                  /\ ref_count(c) = bal[c] - 1
                  /\ (c \notin cpu_halt_mask) <=> (bal[c] = 1)

\* the first of the two resumes of halt, halt, resume, resume
C4_Witness ==
    \E t \in Threads, c \in CPUs :
        /\ pc[t] = "s_unlock"
        /\ c \in arg[t] \cap started
        /\ bal[c] = 2
        /\ ref_count(c) = 1
        /\ c \in cpu_halt_mask

\* the second of the two resumes
C4_WitnessLast ==
    \E t \in Threads, c \in CPUs :
        /\ pc[t] = "s_unlock"
        /\ c \in arg[t] \cap started
        /\ bal[c] = 1
        /\ ent[t].ref[c] = 1
        /\ c \in ent[t].mask
        /\ c \notin cpu_halt_mask

\* C5: ref_count[c] >= 0 in every reachable state, and a single halt or
\* resume call changes ref_count[c] by at most 1.
C5_RefCountNonNegative ==
    variant = "halt" =>
        /\ \A c \in CPUs : ref_count(c) >= 0
        /\ \A t \in Threads : InCall(t) =>
              \A c \in CPUs : /\ ref_count(c) - ent[t].ref[c] <= 1
                              /\ ent[t].ref[c] - ref_count(c) <= 1

\* C6: a successful walt_halt_cpus(S) increments ref_count by exactly 1 for
\* every CPU of the original request S (halted by this call or skipped as
\* already halted) and for no CPU outside S, also on the early path.
C6_HaltCountsWholeRequest ==
    \A t \in Threads : (pc[t] = "h_unlock" /\ ret[t] >= 0) =>
        \A c \in CPUs :
            ref_count(c) = ent[t].ref[c] + (IF c \in arg[t] THEN 1 ELSE 0)

\* a request with one CPU halted by this call and one skipped, both counted
C6_Witness ==
    \E t \in Threads, c \in CPUs, d \in CPUs :
        /\ pc[t] = "h_unlock" /\ ret[t] >= 0
        /\ arg[t] = {c, d}
        /\ cpus[t] = {c}
        /\ ent[t].ref[d] = 1 /\ ref_count(d) = 2
        /\ ent[t].ref[c] = 0 /\ ref_count(c) = 1

\* C7: when the drain of CPU c fails during walt_halt_cpus(S), the call
\* returns the error, c is not in the halt mask on return, the CPUs
\* processed before c stay in the mask, and the CPUs of S after c are
\* untouched (mask bit and last_halt unchanged, no drain attempted).
C7_DrainFailure ==
    \A t \in Threads : (pc[t] = "h_unlock" /\ ret[t] < 0) =>
        /\ cur[t] \in cpus[t]
        /\ cur[t] \in drain_calls[t]
        /\ cur[t] \notin cpu_halt_mask
        /\ \A d \in cpus[t] : d < cur[t] => d \in cpu_halt_mask
        /\ \A d \in arg[t] : d > cur[t] =>
              /\ (d \in cpu_halt_mask) <=> (d \in ent[t].mask)
              /\ last_halt(d) = ent[t].last[d]
              /\ d \notin drain_calls[t]

\* the drain of the first CPU of a two-CPU request failed
C7_Witness ==
    \E t \in Threads :
        /\ pc[t] = "h_unlock" /\ ret[t] < 0
        /\ cpus[t] = CPUs
        /\ cur[t] = 0
        /\ 1 \notin cpu_halt_mask /\ last_halt(1) = 0

\* the drain of a later CPU failed after an earlier CPU was halted
C7_WitnessPartial ==
    \E t \in Threads :
        /\ pc[t] = "h_unlock" /\ ret[t] < 0
        /\ cur[t] > 0 /\ 0 \in cpus[t]
        /\ 0 \in cpu_halt_mask

\* C8: a resume covering a CPU c whose ref_count is already 0 returns
\* success, leaves ref_count[c] at 0 and leaves the mask bit and last_halt
\* of c as they were.
C8_ResumeAtZero ==
    \A t \in Threads : pc[t] = "s_unlock" =>
        /\ ret[t] = 0
        /\ \A c \in arg[t] : ent[t].ref[c] = 0 =>
              /\ ref_count(c) = 0
              /\ (c \in cpu_halt_mask) <=> (c \in ent[t].mask)
              /\ last_halt(c) = ent[t].last[c]

\* the kworker is between mutex_lock and mutex_unlock of the work function
WorkerInCall == wpc \in {"w_scan", "w_pause", "w_unlock"}

\* the coordinator mutex of the build
coordinator_lock == IF variant = "halt" THEN halt_lock ELSE pause_lock

\* C9: at most one mutating operation (halt, resume, online worker) is
\* inside its critical section, where all its ref_count accesses and its
\* drain / pause_cpus / resume_cpus calls happen, and the one inside it is
\* the owner of the coordinator mutex.
C9_MutualExclusion ==
    /\ Cardinality({t \in Threads : InCall(t)}) + (IF WorkerInCall THEN 1 ELSE 0) <= 1
    /\ \A t \in Threads : InCall(t) => coordinator_lock = t
    /\ WorkerInCall => coordinator_lock = Worker

\* the worker sits at mutex_lock while a client is about to call resume_cpus
C9_Witness ==
    \E t \in Threads :
        /\ pc[t] = "r_resume"
        /\ wpc = "w_lock"

\* a client sits idle, with CPUs it could resume, while another drains
C9_WitnessHalt ==
    \E t \in Threads, u \in Threads :
        /\ t # u
        /\ pc[t] = "hc_drain"
        /\ pc[u] = "idle"
        /\ held[u] # {}

(***************************************************************************)
(* Properties of the delegate-based coordinator (walt_pause.c)             *)
(***************************************************************************)
\* C10 as claimed: for an online, paused CPU c with ref_count 1, once
\* walt_resume_cpus({c}) and the online worker have both returned, c is not
\* paused and ref_count[c] = 0.
C10_ResumeThenNotPaused ==
    variant = "pause" =>
        \A c \in CPUs : (resumed[c] \in {"ok", "err"} /\ wpc = "idle") =>
            (c \notin cpu_paused /\ pause_ref_count(c) = 0)

\* C10 as amended: for an online, paused CPU c with ref_count 1, once
\* walt_resume_cpus covering c has returned success, c is not paused and
\* ref_count[c] = 0, and the online worker, whenever it runs, never re-pauses c
\* (until a client calls pause or resume on c again).
C10_ResumeOkThenNotPaused ==
    variant = "pause" =>
        \A c \in CPUs : resumed[c] = "ok" =>
            (c \notin cpu_paused /\ pause_ref_count(c) = 0)

\* the worker ran pause_cpus on another CPU after the resume of c returned
C10_Witness ==
    \E c \in CPUs :
        /\ resumed[c] = "ok"
        /\ c \in cpu_online_mask
        /\ wpc = "w_unlock"
        /\ re_pause_cpus # {}
        /\ wret = 0

(***************************************************************************)
(* Properties of the drain engine (migrate_tasks)                          *)
(***************************************************************************)
\* the per-CPU kthreads / the migratable tasks the run queue started with
pinned_tasks == {p \in DOMAIN tasks : tasks[p].kind = "pinned"}
migratable_tasks == {p \in DOMAIN tasks : tasks[p].kind = "migratable"}

\* C17: for a run queue holding the running stopper, M migratable tasks and
\* P per-CPU kthreads picked in any order, when migrate_tasks returns every
\* migratable task is queued on the CPU select_fallback_rq chose for it (not
\* the drained CPU), all P kthreads are queued on the original run queue,
\* and the run queue counts P tasks besides the stopper, which is restored.
C17_DrainMovesMigratableKeepsPinned ==
    mig.pc = "m_done" =>
        /\ \A p \in migratable_tasks :
              /\ tasks[p].cpu = tasks[p].dest
              /\ tasks[p].cpu # rq.cpu
              /\ tasks[p].on_rq = "TASK_ON_RQ_QUEUED"
        /\ \A p \in pinned_tasks :
              /\ tasks[p].cpu = rq.cpu
              /\ tasks[p].on_rq = "TASK_ON_RQ_QUEUED"
        /\ rq.nr_running - 1 = Cardinality(pinned_tasks)
        /\ queued_on(rq) = pinned_tasks
        /\ mig.percpu_kthreads = << >>
        /\ rq.stop = "stop"

\* a drain of one migratable task and two per-CPU kthreads has returned
C17_Witness ==
    /\ mig.pc = "m_done"
    /\ Cardinality(migratable_tasks) = 1
    /\ Cardinality(pinned_tasks) = 2
    /\ rq.nr_running = 3

(***************************************************************************)
(* Properties of the hotplug reconciliation (walt_pause.c)                 *)
(***************************************************************************)
\* C11: a CPU with ref_count > 0 that went offline and came back online is
\* paused again without a client call: once the deferred work has run (it is
\* neither queued nor running and no call is in progress), no online CPU
\* with ref_count > 0 is left unpaused, unless a client resume of it was
\* under way (and failed) in the meantime; in the drain-based build the mask
\* bit of such a CPU is still set.
C11_RepausedOnceWorkHasRun ==
    /\ variant = "pause" =>
          ((~work_pending /\ wpc = "idle" /\ pause_lock = NoOwner) =>
              \A c \in cpu_online_mask :
                  (pause_ref_count(c) > 0 /\ resumed[c] # "err") => c \in cpu_paused)
    /\ variant = "halt" =>
          (halt_lock = NoOwner =>
              \A c \in CPUs : ref_count(c) > 0 => c \in cpu_halt_mask)

\* C12: the CPU-online callback neither takes the coordinator mutex nor calls
\* the pause primitive nor touches a ref_count; it queues the deferred work
\* exactly when the ref_count of the onlined CPU is non-zero.  The worker,
\* holding pause_lock, collects exactly the CPUs that are online with
\* ref_count # 0 when it scans, and calls pause_cpus on exactly that set.
C12_OnlineCallbackOnlyQueues ==
    [][ /\ (variant = "pause" /\ cpu_online_mask' # cpu_online_mask
            /\ cpu_online_mask \subseteq cpu_online_mask') =>
              /\ pause_lock' = pause_lock
              /\ pause_state' = pause_state
              /\ cpu_paused' = cpu_paused
              /\ work_pending' = (work_pending \/
                    \E c \in cpu_online_mask' \ cpu_online_mask : pause_ref_count(c) # 0)
        /\ (wpc = "w_scan" /\ wpc' # "w_scan") =>
              /\ pause_lock = Worker
              /\ re_pause_cpus' = {c \in cpu_online_mask : pause_ref_count(c) # 0}
              /\ wpc' = "w_pause" <=> re_pause_cpus' # {}
        /\ (wpc = "w_pause" /\ wpc' # "w_pause") =>
              /\ pause_lock = Worker
              /\ re_pause_cpus # {}
              /\ cpu_paused' = pause_cpus(cpu_paused, re_pause_cpus, wret')
        /\ (cpu_paused' \ cpu_paused # {} /\ \A t \in Threads : pc[t] # "p_pause") =>
              wpc = "w_pause"
      ]_vars

\* the worker is about to re-pause one CPU while the other CPU has a
\* non-zero ref_count but is offline
C12_Witness ==
    \E c \in CPUs, d \in CPUs :
        /\ wpc = "w_pause"
        /\ re_pause_cpus = {c}
        /\ d \notin cpu_online_mask
        /\ pause_ref_count(d) # 0

(***************************************************************************)
(* Properties of the lock-free query walt_halt_check_last                  *)
(***************************************************************************)
\* thread t is inside the loop of halt_cpus on CPU c, after setting its bit
HaltingCpu(t, c) == pc[t] \in {"hc_last", "hc_drain", "hc_check"} /\ cur[t] = c

\* C13: walt_halt_check_last(c) is false for a CPU whose last_halt is unset
\* (never halted, or not halted any more after a full resume); it is true
\* only if c is in the halt mask and its halt started at most
\* WALT_HALT_CHECK_THRESHOLD_NS ago.
C13_CheckLastOnlyWhenRecentlyHalted ==
    \A c \in CPUs :
        /\ last_halt(c) = 0 => ~walt_halt_check_last(c)
        /\ walt_halt_check_last(c) =>
              /\ c \in cpu_halt_mask
              /\ last_halt(c) # 0
              /\ now - last_halt(c) <= WALT_HALT_CHECK_THRESHOLD_NS

C14_WitnessAtThreshold ==
    \E c \in CPUs :
        /\ halt_lock = NoOwner /\ ref_count(c) > 0
        /\ now - last_halt(c) = WALT_HALT_CHECK_THRESHOLD_NS
        /\ walt_halt_check_last(c)

\* C15: a lock-free reader never sees the mask bit of c, set by a halt that
\* started within the threshold, together with a stale last_halt left by an
\* earlier halt: in every state in which a halt has set the bit of c and
\* started at most WALT_HALT_CHECK_THRESHOLD_NS ago, walt_halt_check_last(c)
\* is true.
C15_NoStaleLastHalt ==
    \A t \in Threads, c \in CPUs :
        (/\ HaltingCpu(t, c)
         /\ c \in cpu_halt_mask
         /\ c \notin ent[t].mask
         /\ now - start_time[t] <= WALT_HALT_CHECK_THRESHOLD_NS)
            => walt_halt_check_last(c)

(***************************************************************************)
(* Further properties of walt_halt_cpus / walt_start_cpus                  *)
(***************************************************************************)
\* thread t is inside walt_halt_cpus
Halting(t) == pc[t] \in {"h_filter", "hc_set", "hc_last", "hc_drain", "hc_check",
                         "h_finish", "h_unlock"}

\* C16: in every reachable state, the intermediate states of a halt call
\* included, a CPU whose halt-mask bit is set has been drained or is
\* offline: the drain of c completes before c is marked halted.
C16_DrainedBeforeMarked ==
    \A t \in Threads, c \in CPUs :
        (HaltingCpu(t, c) /\ c \in cpu_halt_mask /\ c \notin ent[t].mask) =>
            \/ c \notin cpu_online_mask
            \/ (c \in drain_calls[t] /\ ret[t] = 0)

\* C18: halt_cpus runs cpu_drain_rq on a CPU only if the CPU is online when
\* its turn comes; for an offline CPU with ref_count 0 the drain is skipped
\* (ret untouched) with the mask bit set and last_halt recorded, and on the
\* successful return ref_count has been incremented.
C18_OfflineCpuNotDrained ==
    /\ [](\A t \in Threads : (pc[t] = "h_unlock" /\ ret[t] >= 0) =>
            \A c \in arg[t] : ent[t].ref[c] = 0 =>
                /\ c \in cpu_halt_mask
                /\ last_halt(c) = start_time[t]
                /\ ref_count(c) = 1)
    /\ [][\A t \in Threads :
            /\ (pc[t] = "hc_drain" /\ pc'[t] # "hc_drain") =>
                  IF cur[t] \in cpu_online_mask
                  THEN drain_calls'[t] = drain_calls[t] \cup {cur[t]}
                  ELSE /\ drain_calls'[t] = drain_calls[t]
                       /\ ret'[t] = ret[t]
                       /\ cur[t] \in cpu_halt_mask'
                       /\ halt_state'[cur[t]].last_halt = start_time[t]
            /\ (pc[t] # "hc_drain" /\ pc'[t] # "idle") =>
                  drain_calls'[t] = drain_calls[t]]_vars

\* a successful halt of a CPU that was offline when its turn came
C18_Witness ==
    \E t \in Threads, c \in CPUs :
        /\ pc[t] = "h_unlock" /\ ret[t] >= 0
        /\ c \in arg[t] /\ ent[t].ref[c] = 0
        /\ c \notin cpu_online_mask
        /\ c \notin drain_calls[t]
        /\ c \in cpu_halt_mask /\ ref_count(c) = 1 /\ last_halt(c) # 0

\* C19: walt_halt_cpus, walt_start_cpus, walt_pause_cpus and
\* walt_resume_cpus called with an empty mask return 0 and change no
\* ref_count, no last_halt and no halt-mask bit, call neither the drain nor
\* pause_cpus / resume_cpus, and release the mutex.
C19_EmptyRequestIsNoOp ==
    /\ [](\A t \in Threads : (InCall(t) /\ arg[t] = {}) =>
            /\ ret[t] = 0
            /\ drain_calls[t] = {}
            /\ pc[t] \in {"h_filter", "h_unlock", "s_dec", "s_unlock",
                          "p_inc", "p_unlock", "r_dec", "r_unlock"}
            /\ variant = "halt" => snapshot = ent[t]
            /\ variant = "pause" =>
                  /\ \A c \in CPUs : pause_ref_count(c) = ent[t].ref[c]
                  /\ cpu_paused \subseteq ent[t].mask)
    /\ [][\A t \in Threads : (InCall(t) /\ arg[t] = {} /\ pc'[t] = "idle") =>
            /\ halt_lock' = NoOwner /\ pause_lock' = NoOwner
            /\ halt_state' = halt_state /\ cpu_halt_mask' = cpu_halt_mask
            /\ pause_state' = pause_state /\ cpu_paused' = cpu_paused]_vars

\* walt_halt_cpus(empty) about to return while a CPU is halted
C19_Witness ==
    \E t \in Threads :
        /\ pc[t] = "h_unlock" /\ arg[t] = {}
        /\ cpu_halt_mask # {}
        /\ \E c \in CPUs : ref_count(c) > 0

\* walt_start_cpus(empty) about to return while a CPU is halted
C19_WitnessResume ==
    \E t \in Threads :
        /\ pc[t] = "s_unlock" /\ arg[t] = {}
        /\ cpu_halt_mask # {}

\* walt_pause_cpus(empty) about to return while a CPU is paused
C19_WitnessPause ==
    \E t \in Threads :
        /\ pc[t] = "p_unlock" /\ arg[t] = {}
        /\ cpu_paused # {}

\* walt_resume_cpus(empty) about to return while a CPU is paused
C19_WitnessPauseResume ==
    \E t \in Threads :
        /\ pc[t] = "r_unlock" /\ arg[t] = {}
        /\ cpu_paused # {}

\* C20: a halt call covering a CPU c with ref_count[c] > 0 never drains c
\* and leaves the mask bit and last_halt of c as they were; all it does to
\* c is ref_count[c] + 1, and only when the call succeeds.
C20_AlreadyHaltedOnlyCounted ==
    \A t \in Threads : Halting(t) =>
        \A c \in arg[t] : ent[t].ref[c] > 0 =>
            /\ c \notin drain_calls[t]
            /\ c \notin cpus[t] \/ pc[t] = "h_filter"
            /\ (c \in cpu_halt_mask) <=> (c \in ent[t].mask)
            /\ last_halt(c) = ent[t].last[c]
            /\ ref_count(c) = ent[t].ref[c] +
                  (IF pc[t] = "h_unlock" /\ ret[t] >= 0 THEN 1 ELSE 0)

\* a halt of an already halted CPU and a fresh one returns success, some
\* time after the first halt: one CPU drained, the other only counted
C20_Witness ==
    \E t \in Threads, c \in CPUs, d \in CPUs :
        /\ pc[t] = "h_unlock" /\ ret[t] >= 0
        /\ arg[t] = {c, d}
        /\ ent[t].ref[c] = 1 /\ ref_count(c) = 2
        /\ d \in drain_calls[t]
        /\ last_halt(c) < last_halt(d)

\* a halt covering an already halted CPU fails on another CPU
C20_WitnessFailed ==
    \E t \in Threads, c \in CPUs :
        /\ pc[t] = "h_unlock" /\ ret[t] < 0
        /\ c \in arg[t]
        /\ ent[t].ref[c] = 1 /\ ref_count(c) = 1

\* thread t is inside walt_start_cpus
Starting(t) == pc[t] \in {"s_dec", "sc_last", "sc_mask", "s_unlock"}

\* C21: no step of walt_start_cpus runs the drain or touches a run queue:
\* a resume call changes ref_counts, last_halt and halt-mask bits only.
C21_ResumeNeverDrains ==
    /\ [](\A t \in Threads : Starting(t) => drain_calls[t] = {})
    /\ [][\A t \in Threads : (Starting(t) /\ pc'[t] # pc[t]) =>
            /\ tasks' = tasks /\ rq' = rq /\ mig' = mig
            /\ drain_calls'[t] = {}
            /\ cpu_online_mask' = cpu_online_mask
            /\ pause_state' = pause_state /\ cpu_paused' = cpu_paused]_vars

\* a resume that cleared a CPU from the mask is about to return
C21_Witness ==
    \E t \in Threads, c \in CPUs :
        /\ pc[t] = "s_unlock"
        /\ c \in cpus[t]
        /\ c \in ent[t].mask /\ c \notin cpu_halt_mask
        /\ c \in cpu_online_mask
        /\ drain_calls[t] = {}

\* C22: every step that sets or clears a bit of the global halt mask is
\* taken by the thread that owns halt_lock, inside halt_cpus or start_cpus.
C22_MaskWrittenUnderLock ==
    [][cpu_halt_mask' # cpu_halt_mask =>
          \E t \in Threads :
              /\ halt_lock = t /\ halt_lock' = t
              /\ pc[t] \in {"hc_set", "hc_check", "sc_mask"}
              /\ pc'[t] # pc[t]]_vars

\* the owner of halt_lock is about to set a bit while the other thread, with
\* CPUs of its own halted, is outside any call
C22_Witness ==
    \E t \in Threads, u \in Threads :
        /\ pc[t] = "hc_set" /\ halt_lock = t
        /\ cur[t] \notin cpu_halt_mask
        /\ u # t /\ pc[u] = "idle" /\ held[u] # {}

\* C23: whenever halt_lock is free, last_halt[c] is set only for a CPU that
\* is halted by someone (ref_count[c] > 0 or mask bit set): a CPU that is
\* not halted has last_halt[c] = 0.
C23_LastHaltUnsetWhenNotHalted ==
    (variant = "halt" /\ halt_lock = NoOwner) =>
        \A c \in CPUs :
            (ref_count(c) = 0 /\ c \notin cpu_halt_mask) => last_halt(c) = 0

\* C24: on return from walt_halt_cpus(S) the caller's mask holds the CPUs
\* of S whose ref_count was 0 on entry; on return from walt_start_cpus(S)
\* it holds the CPUs of S whose ref_count is 0 after the decrement, which
\* are exactly the CPUs this call removed from the halt mask.
C24_CallerMaskNarrowed ==
    \A t \in Threads :
        /\ pc[t] = "h_unlock" => cpus[t] = {c \in arg[t] : ent[t].ref[c] = 0}
        /\ pc[t] = "s_unlock" =>
              /\ cpus[t] = {c \in arg[t] : ref_count(c) = 0}
              /\ cpus[t] = ent[t].mask \ cpu_halt_mask

\* a resume of two CPUs returns with one CPU in the caller's mask: it was
\* removed from the halt mask, the other is still halted by someone else
C24_Witness ==
    \E t \in Threads, c \in CPUs, d \in CPUs :
        /\ pc[t] = "s_unlock"
        /\ arg[t] = {c, d} /\ c # d
        /\ cpus[t] = {c}
        /\ c \notin cpu_halt_mask
        /\ d \in cpu_halt_mask /\ ref_count(d) = 1

\* a halt of two CPUs returns with the one that was not yet halted
C24_WitnessHalt ==
    \E t \in Threads, c \in CPUs, d \in CPUs :
        /\ pc[t] = "h_unlock"
        /\ arg[t] = {c, d} /\ c # d
        /\ cpus[t] = {c}
        /\ ent[t].ref[d] = 1

\* C26: in the pause build ref_count[c] is the number of successful
\* walt_pause_cpus calls covering c minus the number of successful
\* walt_resume_cpus calls covering c; hence a call that returns an error,
\* counting for neither, leaves every ref_count as it was at its entry.
C26_FailedCallLeavesCounts ==
    \A t \in Threads :
        (pc[t] \in {"p_unlock", "r_unlock"} /\ ret[t] < 0) =>
            \A c \in CPUs : pause_ref_count(c) = ent[t].ref[c]

\* C27: in every reachable state, the intermediate states of halt and
\* resume calls (successful or failed) included, last_halt[c] # 0 implies
\* that the bit of c is set in the halt mask.
C27_LastHaltImpliesMaskBit ==
    \A c \in CPUs : last_halt(c) # 0 => c \in cpu_halt_mask

(***************************************************************************)
(* Properties of the drain loop: stale tasks, locks, restore, termination  *)
(***************************************************************************)
\* C25: a picked task found, after the lock drop and re-take, to be on
\* another run queue or no longer queued is a fatal assertion: the drain
\* stops there in its error state instead of going on with the loop.
C25_StaleTaskIsFatal ==
    [][(mig.pc = "m_check" /\ stale_task(mig.next)) => mig'.pc = "m_bug"]_vars

\* the locks of run queues / of tasks the stopper holds
rq_locks_held == {l \in mig.locks : l.lock = "rq->__lock"}
pi_locks_held == {l \in mig.locks : l.lock = "pi_lock"}

\* C28: the pi_lock of the picked task is taken only while no run-queue
\* lock is held; on every path through an iteration (kthread detached,
\* stale task skipped, task migrated) it is released before the next
\* iteration starts, where exactly the lock of the drained run queue is
\* held; and migrate_tasks returns holding exactly that lock.
C28_DrainLockDiscipline ==
    /\ [][pi_locks_held' # pi_locks_held /\ pi_locks_held' # {} =>
              /\ rq_locks_held = {}
              /\ pi_locks_held = {}
              /\ pi_locks_held' = {pi_lock(mig.next)}]_vars
    /\ [](mig.pc \in {"m_loop", "m_next", "m_attach", "m_done"} =>
              mig.locks = {rq_lock(rq.cpu)})
    /\ [](mig.pc = "m_ret" => mig.locks = {})

\* a stale task has been skipped and the loop is back at its head
C28_Witness ==
    /\ mig.pc = "m_loop"
    /\ mig.next \in DOMAIN tasks
    /\ ~is_per_cpu_kthread(mig.next)
    /\ tasks[mig.next].on_rq = "0"
    /\ mig.locks = {rq_lock(rq.cpu)}

\* a task has been migrated and the loop is back at its head
C28_WitnessMigrated ==
    /\ mig.pc = "m_loop"
    /\ mig.next \in DOMAIN tasks
    /\ ~is_per_cpu_kthread(mig.next)
    /\ tasks[mig.next].cpu # rq.cpu
    /\ tasks[mig.next].on_rq = "TASK_ON_RQ_QUEUED"
    /\ mig.locks = {rq_lock(rq.cpu)}

\* C29: when migrate_tasks returns rq->stop is again the stop task it had
\* at entry, the side list is empty and every kthread that was detached is
\* queued on the drained run queue; a detached kthread stays on that run
\* queue, marked as migrating, until then, so the BUG_ON of the
\* re-attachment never fires.
C29_StopAndKthreadsRestored ==
    /\ mig.pc # "m_bug"
    /\ \A i \in DOMAIN mig.percpu_kthreads :
          /\ tasks[mig.percpu_kthreads[i]].cpu = rq.cpu
          /\ tasks[mig.percpu_kthreads[i]].on_rq = "TASK_ON_RQ_MIGRATING"
          /\ is_per_cpu_kthread(mig.percpu_kthreads[i])
    /\ mig.pc \in {"m_loop", "m_next", "m_attach"} =>
          /\ rq.stop = "NULL"
          /\ Len(mig.percpu_kthreads) = mig.num_pinned_kthreads - 1
    /\ mig.pc \in {"m_done", "m_ret"} =>
          /\ rq.stop = mig.stop /\ rq.stop # "NULL"
          /\ mig.percpu_kthreads = << >>
          /\ \A p \in DOMAIN tasks :
                tasks[p].on_rq \in {"TASK_ON_RQ_QUEUED"}
          /\ Cardinality({p \in DOMAIN tasks : tasks[p].cpu = rq.cpu}) =
                mig.num_pinned_kthreads - 1

\* migrate_tasks has returned after detaching and re-attaching two kthreads
C29_Witness ==
    /\ mig.pc = "m_done"
    /\ mig.num_pinned_kthreads = 3
    /\ Cardinality(queued_on(rq)) = 2
    /\ rq.stop = "stop"

\* C30: with nothing else touching the run queue the drain loop
\* terminates: every iteration leaves rq->nr_running one below its value at
\* the loop head, the loop is left exactly when that value is 1, and
\* drain_rq_cpu_stop returns.
C30_DrainTerminates ==
    /\ [][(mig'.pc = "m_loop" /\ mig.pc \notin {"idle", "m_loop"}) =>
              rq'.nr_running = mig.iter_nr - 1]_vars
    /\ [][mig.pc = "m_loop" /\ mig'.pc # "m_loop" =>
              (mig'.pc = "m_attach" <=> rq.nr_running = 1)]_vars
    /\ [](mig.pc \in {"m_next", "m_pi", "m_relock", "m_check", "m_migrate"} =>
              mig.iter_nr = rq.nr_running /\ mig.iter_nr > 1)
    /\ <>(mig.pc = "m_ret")

\* a run queue that started with MaxTasks tasks has been drained down to
\* the stopper and the loop is about to be left
C30_Witness ==
    /\ mig.pc = "m_attach"
    /\ rq.nr_running = 1
    /\ Cardinality(DOMAIN tasks) = MaxTasks
    /\ mig.num_pinned_kthreads > 1
    /\ \E p \in DOMAIN tasks : tasks[p].cpu # rq.cpu

(***************************************************************************)
(* Error paths and frame conditions                                        *)
(***************************************************************************)
\* C31: a picked task found stale after the lock drop and re-take is
\* skipped: its pi_lock is released, it is neither migrated nor given a
\* destination, the run queue is left alone and the loop goes on with a
\* fresh pick; only a task that is not stale reaches select_fallback_rq and
\* __migrate_task, and the drain never ends in its error state.
C31_StaleTaskSkipped ==
    /\ [][(mig.pc = "m_check" /\ stale_task(mig.next)) =>
              /\ mig'.pc = "m_loop"
              /\ mig'.locks = {rq_lock(rq.cpu)}
              /\ tasks' = tasks
              /\ rq' = rq]_vars
    /\ [](mig.pc \in {"m_migrate", "m_switch", "m_unlock_pi"} =>
              /\ tasks[mig.next].on_rq = "TASK_ON_RQ_QUEUED"
              /\ ~is_per_cpu_kthread(mig.next))
    /\ [](mig.pc = "m_migrate" => ~stale_task(mig.next))
    /\ [](mig.pc # "m_bug")

\* of two tasks the first picked was taken off the run queue during its
\* window and has been skipped (still assigned to the drained CPU, no
\* destination chosen); the other task is the fresh pick
C31_Witness ==
    \E p \in DOMAIN tasks :
        /\ mig.pc = "m_next"
        /\ mig.next # p
        /\ ~is_per_cpu_kthread(p)
        /\ tasks[p].on_rq = "0"
        /\ tasks[p].cpu = rq.cpu /\ tasks[p].dest = rq.cpu
        /\ Cardinality(DOMAIN tasks) = 2
        /\ rq.nr_running = 2
        /\ mig.locks = {rq_lock(rq.cpu)}

\* C32: when walt_halt_cpus(S) returns an error every ref_count, of the
\* CPUs of S and of the others, is what it was when the call took the lock.
C32_FailedHaltTakesNoReference ==
    \A t \in Threads :
        (pc[t] = "h_unlock" /\ ret[t] < 0) =>
            \A c \in CPUs : ref_count(c) = ent[t].ref[c]

\* a halt fails after it has marked a CPU in the mask
C32_Witness ==
    \E t \in Threads, d \in CPUs :
        /\ pc[t] = "h_unlock" /\ ret[t] < 0
        /\ d \in arg[t]
        /\ d \notin ent[t].mask /\ d \in cpu_halt_mask
        /\ ref_count(d) = 0

\* a halt covering a CPU that another client holds halted fails
C32_WitnessHeld ==
    \E t \in Threads, u \in Threads, c \in CPUs :
        /\ pc[t] = "h_unlock" /\ ret[t] < 0
        /\ c \in arg[t] /\ u # t /\ c \in held[u]
        /\ ref_count(c) = 1

\* C33: balanced use returns to the initial state; in particular a halt
\* issued in the initial state (all ref_counts 0, empty mask, every
\* last_halt unset) whose drain fails, so that no resume is owed, returns
\* with the mask empty, every ref_count 0 and every last_halt unset.
C33_FailedHaltLeavesInitialState ==
    \A t \in Threads :
        (pc[t] = "h_unlock" /\ ret[t] < 0 /\ ent[t] = ent_none) =>
            /\ cpu_halt_mask = {}
            /\ \A c \in CPUs : ref_count(c) = 0 /\ last_halt(c) = 0

\* C34: in the pause build a walt_pause_cpus or walt_resume_cpus that
\* returns an error of the platform primitive returns with every
\* ref_count, those of offline and of filtered CPUs of the request
\* included, at its value before the call.
C34_PauseErrorUndoesCounts ==
    [][\A t \in Threads :
          (pc[t] \in {"p_unlock", "r_unlock"} /\ ret[t] < 0 /\ pc'[t] = "idle") =>
              \A c \in CPUs : pause_state'[c].ref_count = ent[t].ref[c]]_vars

\* C35 (as stated): the set handed to pause_cpus / resume_cpus holds online
\* CPUs only.
C35_PrimitiveGetsOnlineCpus ==
    /\ \A t \in Threads :
          pc[t] \in {"p_pause", "r_resume"} => cpus[t] \subseteq cpu_online_mask
    /\ wpc = "w_pause" => re_pause_cpus \subseteq cpu_online_mask

\* C35 (amended): walt_pause_cpus adds a reference for every CPU of the
\* request and hands pause_cpus the requested CPUs that had ref_count 0 on
\* entry and were online when the call read cpu_online_mask;
\* walt_resume_cpus hands resume_cpus the requested CPUs whose ref_count
\* reached 0 and were online when the call read cpu_online_mask; the worker
\* hands pause_cpus the CPUs with a reference that were online at its scan;
\* none of the three calls is made with an empty set.
C35_PrimitiveGetsFilteredCpus ==
    /\ [][\A t \in Threads :
            /\ (pc[t] = "p_inc" /\ pc'[t] # "p_inc") =>
                  /\ \A c \in CPUs : pause_state'[c].ref_count =
                        pause_state[c].ref_count + (IF c \in arg[t] THEN 1 ELSE 0)
                  /\ cpus'[t] = {c \in arg[t] : ent[t].ref[c] = 0 /\ c \in cpu_online_mask}
                  /\ (pc'[t] = "p_pause" <=> cpus'[t] # {})
            /\ (pc[t] = "r_dec" /\ pc'[t] # "r_dec") =>
                  /\ cpus'[t] = {c \in arg[t] : pause_state'[c].ref_count = 0
                                                  /\ c \in cpu_online_mask}
                  /\ (pc'[t] = "r_resume" <=> cpus'[t] # {})
            /\ (pc[t] \in {"p_pause", "r_resume"} /\ pc'[t] = pc[t]) =>
                  cpus'[t] = cpus[t]]_vars
    /\ [][(wpc = "w_scan" /\ wpc' # "w_scan") =>
            /\ re_pause_cpus' = {c \in cpu_online_mask : pause_ref_count(c) # 0}
            /\ (wpc' = "w_pause" <=> re_pause_cpus' # {})]_vars
    /\ [][wpc = "w_pause" /\ wpc' = "w_pause" => re_pause_cpus' = re_pause_cpus]_vars
    /\ [](\A t \in Threads : pc[t] \in {"p_pause", "r_resume"} => cpus[t] # {})
    /\ [](wpc = "w_pause" => re_pause_cpus # {})

\* pause_cpus is about to be called for the one online, unpaused CPU of a
\* request that also covers an offline CPU, whose reference has been added
C35_Witness ==
    \E t \in Threads, c \in CPUs, d \in CPUs :
        /\ pc[t] = "p_pause"
        /\ arg[t] = {c, d} /\ c # d
        /\ cpus[t] = {c}
        /\ d \notin cpu_online_mask
        /\ pause_ref_count(d) = ent[t].ref[d] + 1

\* C36: no step of the online worker and no hotplug step (the online
\* callback included) changes a ref_count, whether pause_cpus succeeds or
\* fails.
C36_WorkerKeepsCounts ==
    [][(wpc' # wpc \/ cpu_online_mask' # cpu_online_mask \/ work_pending' # work_pending)
          => pause_state' = pause_state]_vars

\* the worker's pause_cpus has failed with references outstanding
C36_Witness ==
    /\ wpc = "w_unlock"
    /\ wret < 0
    /\ re_pause_cpus # {}
    /\ \A c \in re_pause_cpus : pause_ref_count(c) > 0

\* C38: cpu_drain_rq answers 0 without stop_one_cpu when the CPU is idle
\* and otherwise answers what stop_one_cpu returned: for an online idle CPU
\* the halt has set the mask bit and last_halt, goes on without running the
\* drain and, when all its online CPUs are idle, succeeds; for an online
\* CPU that is not idle the result of the halt for that CPU is the result
\* of stop_one_cpu.
C38_IdleCpuNotStopped ==
    \A t \in Threads :
        /\ \A e \in drain_log[t] :
              /\ e.cpu \in drain_calls[t]
              /\ e.idle => (~e.stopped /\ e.ret = 0)
              /\ ~e.idle => e.stopped
              /\ e.ret \in cpu_drain_rq_results
              /\ (e.ret < 0 /\ pc[t] \in {"hc_check", "h_finish", "h_unlock"}) =>
                    ret[t] = e.ret
        /\ (pc[t] = "hc_check" /\ cur[t] \in drain_calls[t]) =>
              \E e \in drain_log[t] :
                  /\ e.cpu = cur[t]
                  /\ ret[t] = e.ret
                  /\ e.idle =>
                        /\ cur[t] \in cpu_halt_mask
                        /\ last_halt(cur[t]) = start_time[t]
        /\ (pc[t] = "h_unlock" /\ \A e \in drain_log[t] : e.idle) => ret[t] = 0

\* a halt of two online idle CPUs is about to return success: both are in
\* the mask, cpu_drain_rq was called for both and stop_one_cpu for neither
C38_Witness ==
    \E t \in Threads :
        /\ pc[t] = "h_unlock" /\ ret[t] = 0
        /\ Cardinality(drain_calls[t]) = 2
        /\ \A e \in drain_log[t] : e.idle /\ ~e.stopped
        /\ drain_calls[t] \subseteq cpu_halt_mask
        /\ \A c \in drain_calls[t] : ref_count(c) = 1

\* stop_one_cpu has failed for an online CPU that is not idle
C38_WitnessStopFailed ==
    \E t \in Threads :
        /\ pc[t] = "hc_check" /\ ret[t] = -2
        /\ \E e \in drain_log[t] : e.cpu = cur[t] /\ ~e.idle /\ e.stopped /\ e.ret = -2

C37_WitnessEarlyExit ==
    \E t \in Threads :
        /\ pc[t] = "h_unlock" /\ halt_lock = t
        /\ arg[t] # {} /\ drain_calls[t] = {}
        /\ \A c \in arg[t] : ent[t].ref[c] > 0

C37_WitnessWorker ==
    /\ wpc = "w_lock"
    /\ \E t \in Threads : pause_lock = t /\ pc[t] = "p_unlock" /\ ret[t] < 0

(***************************************************************************)
(* Properties of kick_memperfd / memperfd_wait_for_kick (fie_fixer.c)      *)
(***************************************************************************)
\* C39: kick_memperfd rate-limits the wake-ups: a caller gets to the
\* wake-up only with now at least MEMPERFD_POLL_HZ jiffies after the
\* last_run_jiffies it read, having replaced that value by its now; a value
\* of last_run_jiffies is replaced by at most one cmpxchg, so of the callers
\* that read the same value at most one gets to the wake-up; and memperfd
\* is woken only by such a caller.
C39_KickRateLimited ==
    /\ [](\A k \in Kickers :
             kick[k].pc = "k_wake" =>
                 /\ kick[k].now >= kick[k].prev + MEMPERFD_POLL_HZ
                 /\ jiffies >= kick[k].prev + MEMPERFD_POLL_HZ)
    /\ [](\A v \in DOMAIN cas_wins : cas_wins[v] <= 1)
    /\ [](\A k \in Kickers, j \in Kickers :
             (k # j /\ kick[k].pc = "k_wake" /\ kick[j].pc = "k_wake") =>
                 kick[k].prev # kick[j].prev)
    /\ [][last_run_jiffies' # last_run_jiffies /\ memperfd'.pc = memperfd.pc =>
             /\ jiffies >= last_run_jiffies + MEMPERFD_POLL_HZ
             /\ \E k \in Kickers : kick[k].pc = "k_store" /\ kick'[k].pc = "k_wake"]_vars
    /\ [][(memperfd.state = "TASK_IDLE" /\ memperfd'.state = "TASK_RUNNING"
              /\ memperfd'.pc # "work") =>
             \E k \in Kickers : kick[k].pc = "k_wake" /\ kick'[k].pc = "idle"]_vars

\* two callers have read the same last_run_jiffies and passed the rate
\* limit; one has won the cmpxchg and is about to wake the sleeping
\* memperfd, the other has lost and returned
C39_Witness ==
    \E k \in Kickers, j \in Kickers :
        /\ k # j
        /\ kick[k].pc = "k_wake"
        /\ kick[j].pc = "idle"
        /\ cas_wins[kick[k].prev] = 1
        /\ memperfd.pc = "sleep"
        /\ last_run_jiffies = kick[k].now
        /\ jiffies = MaxJiffies
        /\ cas_wins[0] = 1 /\ kick[k].prev = MEMPERFD_POLL_HZ

\* C40: memperfd never loses a kick: once a cmpxchg of kick_memperfd has
\* changed last_run_jiffies from the prev_jiffies memperfd stored, either
\* that caller wakes the waiter or the waiter sees the changed value at its
\* check and does not sleep; memperfd is never asleep on the wait queue
\* with last_run_jiffies changed and no caller left to wake it.
C40_NoLostKick ==
    ~ ( /\ memperfd.pc = "sleep"
        /\ memperfd.state = "TASK_IDLE"
        /\ last_run_jiffies # memperfd.prev_jiffies
        /\ \A k \in Kickers : kick[k].pc \notin {"k_store", "k_wake"} )

====
